---- MODULE Spec2Model ----
(***************************************************************************)
(* Pomodoro Sync App: the Go PomodoroService (internal/service) over the   *)
(* SQLite repository, and the timer actions of the Node PomodoroService    *)
(* (src/app.js), as state machines on one wall clock.                      *)
(*                                                                         *)
(* Every Go request reads the clock first (now := time.Now()) and then     *)
(* opens a transaction.  The database pool holds one connection            *)
(* (SetMaxOpenConns(1)), so a transaction runs from BeginTx to             *)
(* Commit/Rollback without interleaving with any other transaction: a      *)
(* request is two steps, its arrival (clock read) and its transaction.     *)
(*                                                                         *)
(* Spec:      all Go requests, served one at a time (no request waits).    *)
(* SpecTimer: reads, start, pause and reset of the Go service, over a      *)
(*            longer run.                                                  *)
(* SpecBoth:  reads, start and pause of the Go service beside reads,       *)
(*            START, PAUSE and RESET of the Node service.                  *)
(* SpecRace:  Go requests read the clock, wait for the connection and run  *)
(*            their transactions in any order.                             *)
(***************************************************************************)
EXTENDS Integers, Sequences, FiniteSets, TLC

VARIABLES
    clock,          \* the wall clock, in ticks
    state,          \* table pomodoro_states: one row per user
    sessions,       \* table pomodoro_sessions: the rows in insertion order
    pending,        \* requests that have read the clock and wait for the connection
    resp,           \* the response to the last request served
    lastConflict,   \* per user, the version of the last conflict snapshot no commit has followed
    ran,            \* per user, the ticks the active session ran, one entry per stretch ended by a pause
    nodeStore,      \* Node service: store.users, one entry per user
    nodeResp,       \* Node service: the payload returned to the last request
    db,             \* Express service: per user, the rows of timer_state, settings and sessions
    sse,            \* Node service: the registry of event streams and what each stream was sent
    sync            \* Express service: the SyncManager's registry and its WebSocket connections

goVars == <<state, sessions, pending, resp, lastConflict, ran>>
nodeVars == <<nodeStore, nodeResp>>
expressVars == <<db>>
pushVars == <<sse, sync>>
vars ==
    <<clock, state, sessions, pending, resp, lastConflict, ran, nodeStore, nodeResp, db,
      sse, sync>>

----------------------------------------------------------------------------
(* Bounds of the model *)

MaxClock == 2
MaxVersion == 4
MaxSessions == 2
\* of the specification with requests that wait for the connection
MaxPending == 2
RaceMaxSeconds == 1
RaceMaxVersion == 3
\* of the specification of the timer operations alone
TimerMaxClock == 5
TimerMaxVersion == 5
\* of the specification of the two services side by side
BothMaxClock == 2
BothMaxVersion == 3
\* of the specification of the settings of the two services
SettingsMaxClock == 3
SettingsMaxVersion == 5
\* of the specification of the ledger
LedgerMaxClock == 2
LedgerMaxVersion == 5
\* of the specification of the cycle of phases
CycleMaxMinutes == 5
CycleMaxVersion == 7
CycleMaxCompleted == 8
\* of the specification of the reads
ReadMaxClock == 2
ReadMaxVersion == 5
ReadAbsenceMinutes == 101
\* of the specification of two users of the Go service
SharedMaxClock == 1
SharedMaxVersion == 3
\* of the specification of failing persistence
FailureMaxClock == 2
FailureMaxVersion == 4
\* of the specification of the event streams
MaxStreams == 2
PushMaxClock == 2
PushMaxVersion == 4
\* of the specification of the WebSocket connections
MaxSockets == 2
MaxBeats == 3
MaxReceived == 3

\* the clock advances in steps of half a second
TicksPerSecond == 2

----------------------------------------------------------------------------
(* model/pomodoro.go *)

ModeFocus == "focus"
ModeShortBreak == "short_break"
ModeLongBreak == "long_break"

StatusIdle == "idle"
StatusRunning == "running"
StatusPaused == "paused"

DefaultFocusDurationSeconds == 25 * 60
DefaultShortBreakDurationSeconds == 5 * 60
DefaultLongBreakDurationSeconds == 15 * 60

Modes == {ModeFocus, ModeShortBreak, ModeLongBreak}

\* nil *time.Time and nil *string
NoTime == -1
NoSession == 0

Users == {"u1", "u2"}
ActiveUsers == {"u1"}

\* Inputs of the requests
ModeInputs == {ModeFocus, ModeShortBreak, "nap"}
SettingsInputs == {<<1, 2, 3>>, <<0, 1, 1>>}
RaceSettingsInputs == {<<1, 1, 1>>}
Mutations == {"start", "pause", "reset", "switchMode", "updateSettings"}
Ops == Mutations \cup {"getState"}

----------------------------------------------------------------------------
(* Pure helpers of the service *)

\* int(d.Seconds()) for a duration of d ticks: truncation toward zero
SecondsOf(d) == IF d >= 0 THEN d \div TicksPerSecond ELSE 0 - ((0 - d) \div TicksPerSecond)

\* faulty variant: the time run since startedAt is not counted
currentRemainingSecondsStored(st, now) ==
    IF st.remainingSeconds < 0 THEN 0 ELSE st.remainingSeconds

currentRemainingSeconds(st, now) ==
    IF st.status # StatusRunning \/ st.startedAt = NoTime
    THEN IF st.remainingSeconds < 0 THEN 0 ELSE st.remainingSeconds
    ELSE LET elapsed == SecondsOf(now - st.startedAt)
             remaining == st.remainingSeconds - elapsed
         IN  IF remaining < 0 THEN 0 ELSE remaining

durationForMode(st) ==
    CASE st.mode = ModeShortBreak -> st.shortBreakDurationSeconds
      [] st.mode = ModeLongBreak -> st.longBreakDurationSeconds
      [] OTHER -> st.focusDurationSeconds

isValidMode(mode) == mode = ModeFocus \/ mode = ModeShortBreak \/ mode = ModeLongBreak

toStateView(st, now) ==
    [ mode |-> st.mode,
      status |-> st.status,
      remainingSeconds |-> IF st.status = StatusRunning
                           THEN currentRemainingSeconds(st, now)
                           ELSE st.remainingSeconds,
      focusDurationSeconds |-> st.focusDurationSeconds,
      shortBreakDurationSeconds |-> st.shortBreakDurationSeconds,
      longBreakDurationSeconds |-> st.longBreakDurationSeconds,
      startedAt |-> IF st.status = StatusRunning THEN now ELSE NoTime,
      sessionId |-> st.sessionId,
      version |-> st.version,
      updatedAt |-> st.updatedAt,
      serverTime |-> now ]

\* faulty variants of finishSession: the update reaches every row; the actual
\* duration is not clamped
finishSessionEveryRow(sess, sessionID, remainingSeconds, completed, now) ==
    IF sessionID \notin DOMAIN sess THEN sess
    ELSE IF sess[sessionID].status # "running" THEN sess
    ELSE LET rem == IF remainingSeconds < 0 THEN 0 ELSE remainingSeconds
             a0 == sess[sessionID].plannedDurationSeconds - rem
             a1 == IF a0 < 0 THEN 0 ELSE a0
             actual == IF a1 > sess[sessionID].plannedDurationSeconds
                       THEN sess[sessionID].plannedDurationSeconds ELSE a1
         IN  [i \in DOMAIN sess |->
                 [sess[i] EXCEPT !.status = IF completed THEN "completed" ELSE "cancelled",
                                 !.actualDurationSeconds = actual,
                                 !.endedAt = now,
                                 !.updatedAt = now]]

finishSessionUnclamped(sess, sessionID, remainingSeconds, completed, now) ==
    IF sessionID \notin DOMAIN sess THEN sess
    ELSE IF sess[sessionID].status # "running" THEN sess
    ELSE [sess EXCEPT ![sessionID] =
             [@ EXCEPT !.status = IF completed THEN "completed" ELSE "cancelled",
                       !.actualDurationSeconds =
                           sess[sessionID].plannedDurationSeconds - remainingSeconds,
                       !.endedAt = now,
                       !.updatedAt = now]]

\* faulty variant: the UPDATE matches the oldest running row, whoever owns it
finishSessionAnyRunning(sess, sessionID, remainingSeconds, completed, now) ==
    IF \A i \in DOMAIN sess : sess[i].status # "running" THEN sess
    ELSE LET first == CHOOSE i \in DOMAIN sess :
                         /\ sess[i].status = "running"
                         /\ \A j \in 1 .. i - 1 : sess[j].status # "running"
         IN  [sess EXCEPT ![first] =
                 [@ EXCEPT !.status = IF completed THEN "completed" ELSE "cancelled",
                           !.endedAt = now,
                           !.updatedAt = now]]

\* the session row after finishSession; a missing row or a row that is not
\* running is left alone
finishSession(sess, sessionID, remainingSeconds, completed, now) ==
    IF sessionID \notin DOMAIN sess THEN sess
    ELSE IF sess[sessionID].status # "running" THEN sess
    ELSE LET session == sess[sessionID]
             rem == IF remainingSeconds < 0 THEN 0 ELSE remainingSeconds
             a0 == session.plannedDurationSeconds - rem
             a1 == IF a0 < 0 THEN 0 ELSE a0
             actual == IF a1 > session.plannedDurationSeconds
                       THEN session.plannedDurationSeconds ELSE a1
         IN  [sess EXCEPT ![sessionID] =
                 [session EXCEPT !.status = IF completed THEN "completed" ELSE "cancelled",
                                 !.actualDurationSeconds = actual,
                                 !.endedAt = now,
                                 !.updatedAt = now]]

\* normalizeCompletedSession: the state written for an expired timer
completedState(st, now) ==
    [st EXCEPT !.status = StatusIdle,
               !.startedAt = NoTime,
               !.sessionId = NoSession,
               !.remainingSeconds = durationForMode(st),
               !.updatedAt = now,
               !.version = st.version + 1]

\* the transaction's view of the database: the state object and the session
\* rows as written so far
Tx(st, sess) == [st |-> st, sess |-> sess]

normalizeCompletedSession(tx, now) ==
    LET st == tx.st IN
    IF st.status # StatusRunning \/ st.startedAt = NoTime THEN tx
    ELSE IF currentRemainingSeconds(st, now) > 0 THEN tx
    ELSE LET sess1 == IF st.sessionId # NoSession
                      THEN finishSession(tx.sess, st.sessionId, 0, TRUE, now)
                      ELSE tx.sess
         IN  Tx(completedState(st, now), sess1)

\* faulty variant: the stored row is handed to the version check as it is
getStateForUpdateStale(st, sess, now) == Tx(st, sess)

getStateForUpdate(st, sess, now) == normalizeCompletedSession(Tx(st, sess), now)

\* faulty variants of the version check: none at all; stale versions only
ensureVersionSkipped(baseVersion, st) == TRUE
ensureVersionAtLeast(baseVersion, st) == baseVersion <= 0 \/ baseVersion >= st.version

\* TRUE when the request passes the version check
ensureVersion(baseVersion, st) == baseVersion <= 0 \/ baseVersion = st.version

----------------------------------------------------------------------------
(* The outcome of a request's transaction: what is committed (commit, st,  *)
(* sess) and what the caller receives (kind, view).  A return before       *)
(* tx.Commit() runs the deferred Rollback: nothing is written.             *)

\* faulty variant: what the transaction wrote stays, whatever the return
OutcomeWritten(kind, commit, tx, st0, sess0, now) ==
    [ kind |-> kind,
      commit |-> commit,
      st |-> tx.st,
      sess |-> tx.sess,
      view |-> toStateView(tx.st, now) ]

Outcome(kind, commit, tx, st0, sess0, now) ==
    [ kind |-> kind,
      commit |-> commit,
      st |-> IF commit THEN tx.st ELSE st0,
      sess |-> IF commit THEN tx.sess ELSE sess0,
      view |-> toStateView(tx.st, now) ]

NewSession(sessionID, userID, st, now) ==
    [ id |-> sessionID,
      userId |-> userID,
      mode |-> st.mode,
      plannedDurationSeconds |-> st.remainingSeconds,
      actualDurationSeconds |-> 0,
      startedAt |-> now,
      endedAt |-> NoTime,
      status |-> "running",
      createdAt |-> now,
      updatedAt |-> now ]

\* the one element of a singleton set
Only(S) == CHOOSE x \in S : TRUE

GetStateResult(st0, sess0, now) ==
    Only({ Outcome("ok", TRUE, tx, st0, sess0, now) :
             tx \in {normalizeCompletedSession(Tx(st0, sess0), now)} })

\* Start: an idle timer takes the full duration of its mode
freshRemaining(st) ==
    IF st.status = StatusIdle
    THEN [st EXCEPT !.remainingSeconds = durationForMode(st)]
    ELSE st

\* faulty variant: a session is opened by every start
openSessionAlways(tx, st, userID, now) ==
    Tx([st EXCEPT !.sessionId = Len(tx.sess) + 1],
       Append(tx.sess, NewSession(Len(tx.sess) + 1, userID, st, now)))

\* Start: a session is opened when none is active; uuid.NewString() is the
\* next unused row number
openSession(tx, st, userID, now) ==
    IF st.sessionId = NoSession
    THEN LET sessionID == Len(tx.sess) + 1
         IN  Tx([st EXCEPT !.sessionId = sessionID],
                Append(tx.sess, NewSession(sessionID, userID, st, now)))
    ELSE Tx(st, tx.sess)

startState(st, now) ==
    [st EXCEPT !.status = StatusRunning,
               !.startedAt = now,
               !.updatedAt = now,
               !.version = st.version + 1]

StartTx(tx, st0, sess0, userID, baseVersion, now) ==
    IF ~ensureVersion(baseVersion, tx.st) THEN Outcome("conflict", FALSE, tx, st0, sess0, now)
    ELSE IF tx.st.status = StatusRunning THEN Outcome("ok", FALSE, tx, st0, sess0, now)
    ELSE Only({ Outcome("ok", TRUE, Tx(startState(tx1.st, now), tx1.sess), st0, sess0, now) :
                  tx1 \in {openSession(tx, freshRemaining(tx.st), userID, now)} })

\* faulty variant: startedAt survives the pause
pauseStateKeepingStartedAt(st, now) ==
    [st EXCEPT !.remainingSeconds = currentRemainingSeconds(st, now),
               !.status = StatusPaused,
               !.updatedAt = now,
               !.version = st.version + 1]

pauseState(st, now) ==
    [st EXCEPT !.remainingSeconds = currentRemainingSeconds(st, now),
               !.status = StatusPaused,
               !.startedAt = NoTime,
               !.updatedAt = now,
               !.version = st.version + 1]

\* faulty variant: the status is not looked at
PauseTxAlways(tx, st0, sess0, baseVersion, now) ==
    IF ~ensureVersion(baseVersion, tx.st) THEN Outcome("conflict", FALSE, tx, st0, sess0, now)
    ELSE Outcome("ok", TRUE, Tx(pauseState(tx.st, now), tx.sess), st0, sess0, now)

PauseTx(tx, st0, sess0, baseVersion, now) ==
    IF ~ensureVersion(baseVersion, tx.st) THEN Outcome("conflict", FALSE, tx, st0, sess0, now)
    ELSE IF tx.st.status # StatusRunning THEN Outcome("ok", FALSE, tx, st0, sess0, now)
    ELSE Outcome("ok", TRUE, Tx(pauseState(tx.st, now), tx.sess), st0, sess0, now)

\* faulty variant: the interrupted session is left as it is
cancelSessionSkipped(tx, now) == tx.sess

\* faulty variant: the interrupted session is closed as completed
cancelSessionCompleted(tx, now) ==
    IF tx.st.sessionId # NoSession
    THEN finishSession(tx.sess, tx.st.sessionId,
                       currentRemainingSeconds(tx.st, now), TRUE, now)
    ELSE tx.sess

\* Reset and SwitchMode: the active session, if any, is closed as cancelled
cancelSession(tx, now) ==
    IF tx.st.sessionId # NoSession
    THEN finishSession(tx.sess, tx.st.sessionId,
                       currentRemainingSeconds(tx.st, now), FALSE, now)
    ELSE tx.sess

\* faulty variants: the session reference survives; the remaining time is
\* not restored; the duration is taken before the mode is set
resetStateKeepingSession(st, now) ==
    [st EXCEPT !.status = StatusIdle,
               !.startedAt = NoTime,
               !.remainingSeconds = durationForMode(st),
               !.updatedAt = now,
               !.version = st.version + 1]

resetStateKeepingRemaining(st, now) ==
    [st EXCEPT !.status = StatusIdle,
               !.startedAt = NoTime,
               !.sessionId = NoSession,
               !.remainingSeconds = currentRemainingSeconds(st, now),
               !.updatedAt = now,
               !.version = st.version + 1]

resetState(st, now) ==
    [st EXCEPT !.status = StatusIdle,
               !.startedAt = NoTime,
               !.sessionId = NoSession,
               !.remainingSeconds = durationForMode(st),
               !.updatedAt = now,
               !.version = st.version + 1]

ResetTx(tx, st0, sess0, baseVersion, now) ==
    IF ~ensureVersion(baseVersion, tx.st) THEN Outcome("conflict", FALSE, tx, st0, sess0, now)
    ELSE Outcome("ok", TRUE, Tx(resetState(tx.st, now), cancelSession(tx, now)), st0, sess0, now)

switchStateOldDuration(st, mode, now) ==
    [resetState(st, now) EXCEPT !.mode = mode]

switchState(st, mode, now) ==
    resetState([st EXCEPT !.mode = mode], now)

SwitchModeTx(tx, st0, sess0, mode, baseVersion, now) ==
    IF ~ensureVersion(baseVersion, tx.st) THEN Outcome("conflict", FALSE, tx, st0, sess0, now)
    ELSE Outcome("ok", TRUE, Tx(switchState(tx.st, mode, now), cancelSession(tx, now)),
                 st0, sess0, now)

validDurations(input) == ~(input[1] <= 0 \/ input[2] <= 0 \/ input[3] <= 0)

\* UpdateSettings recomputing the remaining time whatever the status
settingsStateAnyStatus(st, input, now) ==
    LET sts == [st EXCEPT !.focusDurationSeconds = input[1],
                          !.shortBreakDurationSeconds = input[2],
                          !.longBreakDurationSeconds = input[3]]
    IN  [sts EXCEPT !.remainingSeconds = durationForMode(sts),
                    !.updatedAt = now,
                    !.version = st.version + 1]

\* UpdateSettings storing the durations and nothing else of the timer
settingsStateDurationsOnly(st, input, now) ==
    [st EXCEPT !.focusDurationSeconds = input[1],
               !.shortBreakDurationSeconds = input[2],
               !.longBreakDurationSeconds = input[3],
               !.updatedAt = now,
               !.version = st.version + 1]

settingsState(st, input, now) ==
    LET sts == [st EXCEPT !.focusDurationSeconds = input[1],
                          !.shortBreakDurationSeconds = input[2],
                          !.longBreakDurationSeconds = input[3]]
    IN  [sts EXCEPT !.remainingSeconds = IF sts.status # StatusRunning
                                         THEN durationForMode(sts)
                                         ELSE sts.remainingSeconds,
                    !.updatedAt = now,
                    !.version = st.version + 1]

UpdateSettingsTx(tx, st0, sess0, input, baseVersion, now) ==
    IF ~ensureVersion(baseVersion, tx.st) THEN Outcome("conflict", FALSE, tx, st0, sess0, now)
    ELSE Outcome("ok", TRUE, Tx(settingsState(tx.st, input, now), tx.sess), st0, sess0, now)

\* the service methods: the part before the transaction, then the
\* transaction on the state that getStateForUpdate returns
StartResult(st0, sess0, userID, baseVersion, now) ==
    Only({ StartTx(tx, st0, sess0, userID, baseVersion, now) :
             tx \in {getStateForUpdate(st0, sess0, now)} })

PauseResult(st0, sess0, baseVersion, now) ==
    Only({ PauseTx(tx, st0, sess0, baseVersion, now) :
             tx \in {getStateForUpdate(st0, sess0, now)} })

ResetResult(st0, sess0, baseVersion, now) ==
    Only({ ResetTx(tx, st0, sess0, baseVersion, now) :
             tx \in {getStateForUpdate(st0, sess0, now)} })

SwitchModeResult(st0, sess0, mode, baseVersion, now) ==
    IF ~isValidMode(mode) THEN Outcome("bad_request", FALSE, Tx(st0, sess0), st0, sess0, now)
    ELSE Only({ SwitchModeTx(tx, st0, sess0, mode, baseVersion, now) :
                  tx \in {getStateForUpdate(st0, sess0, now)} })

UpdateSettingsResult(st0, sess0, input, baseVersion, now) ==
    IF ~validDurations(input)
    THEN Outcome("bad_request", FALSE, Tx(st0, sess0), st0, sess0, now)
    ELSE Only({ UpdateSettingsTx(tx, st0, sess0, input, baseVersion, now) :
                  tx \in {getStateForUpdate(st0, sess0, now)} })

\* the outcome of request r on the stored state and ledger
ResultOf(r, st0, sess0) ==
    CASE r.op = "getState" -> GetStateResult(st0, sess0, r.now)
      [] r.op = "start" -> StartResult(st0, sess0, r.user, r.baseVersion, r.now)
      [] r.op = "pause" -> PauseResult(st0, sess0, r.baseVersion, r.now)
      [] r.op = "reset" -> ResetResult(st0, sess0, r.baseVersion, r.now)
      [] r.op = "switchMode" -> SwitchModeResult(st0, sess0, r.mode, r.baseVersion, r.now)
      [] OTHER -> UpdateSettingsResult(st0, sess0, r.settings, r.baseVersion, r.now)

----------------------------------------------------------------------------
(* History: ListSessions orders the rows by the column started_at, a TEXT  *)
(* column holding time.Format(time.RFC3339Nano).                           *)

\* the text of a timestamp: the whole seconds (fixed width, so they compare
\* as the number), then "Z", or "." (46), the fraction digits without trailing
\* zeros and "Z" (90)
FormatTime(t) ==
    LET k == t % TicksPerSecond
    IN  IF k = 0 THEN <<t \div TicksPerSecond, 90>>
        ELSE <<t \div TicksPerSecond, 46, 48 + ((k * 10) \div TicksPerSecond), 90>>

\* the order of two texts under SQLite's BINARY collation
RECURSIVE TextLess(_, _)
TextLess(a, b) ==
    IF a = <<>> THEN b # <<>>
    ELSE IF b = <<>> THEN FALSE
    ELSE IF Head(a) # Head(b) THEN Head(a) < Head(b)
    ELSE TextLess(Tail(a), Tail(b))

\* the rows that ORDER BY started_at DESC may return first for a user (rows
\* with equal keys come in no specified order)
ListSessionsFirst(sess, userID) ==
    {i \in DOMAIN sess :
        /\ sess[i].userId = userID
        /\ \A j \in DOMAIN sess :
              sess[j].userId = userID
                 => ~TextLess(FormatTime(sess[i].startedAt), FormatTime(sess[j].startedAt))}

----------------------------------------------------------------------------
(* The Node service (src/app.js): PomodoroService over the in-memory store. *)
(* Times are milliseconds; durations in the settings are whole minutes.     *)

DEFAULT_SETTINGS ==
    [ focusMinutes |-> 25, shortBreakMinutes |-> 5, longBreakMinutes |-> 15,
      longBreakEvery |-> 4 ]

\* this.now(): Date.now() at the wall clock
MsPerTick == 1000 \div TicksPerSecond
NodeNow == clock * MsPerTick

minutesToMs(minutes) == minutes * 60 * 1000

getPhaseDurationMs(settings, phase) ==
    CASE phase = "focus" -> minutesToMs(settings.focusMinutes)
      [] phase = "shortBreak" -> minutesToMs(settings.shortBreakMinutes)
      [] OTHER -> minutesToMs(settings.longBreakMinutes)

createDefaultUserState(now) ==
    [ version |-> 1,
      updatedAt |-> now,
      settings |-> DEFAULT_SETTINGS,
      stats |-> [completedFocusSessions |-> 0],
      timer |-> [ phase |-> "focus",
                  status |-> "idle",
                  durationMs |-> getPhaseDurationMs(DEFAULT_SETTINGS, "focus"),
                  remainingMs |-> getPhaseDurationMs(DEFAULT_SETTINGS, "focus"),
                  startedAt |-> NoTime,
                  endAt |-> NoTime ] ]

\* a user the store does not hold
NoUser == [createDefaultUserState(0) EXCEPT !.version = 0]

\* faulty variant: the long break comes one focus session late
pickBreakPhaseLate(settings, focusSessionCount) ==
    IF (focusSessionCount - 1) % settings.longBreakEvery = 0 /\ focusSessionCount > 1
    THEN "longBreak" ELSE "shortBreak"

pickBreakPhase(settings, focusSessionCount) ==
    IF focusSessionCount % settings.longBreakEvery = 0 THEN "longBreak" ELSE "shortBreak"

\* faulty variant: the phase entered waits idle
setPhaseStateIdle(userState, phase, status, now) ==
    LET durationMs == getPhaseDurationMs(userState.settings, phase)
    IN  [userState EXCEPT !.timer =
            [ phase |-> phase,
              durationMs |-> durationMs,
              status |-> "idle",
              startedAt |-> NoTime,
              endAt |-> NoTime,
              remainingMs |-> durationMs ]]

\* setPhaseState called without remainingMs
setPhaseState(userState, phase, status, now) ==
    LET durationMs == getPhaseDurationMs(userState.settings, phase)
    IN  [userState EXCEPT !.timer =
            [ phase |-> phase,
              durationMs |-> durationMs,
              status |-> status,
              startedAt |-> IF status = "running" THEN now ELSE NoTime,
              endAt |-> IF status = "running" THEN now + durationMs ELSE NoTime,
              remainingMs |-> durationMs ]]

\* faulty variant: the next phase starts at the time of the reconciliation
RECURSIVE advanceLoopFromNow(_, _, _)
advanceLoopFromNow(userState, now, safetyCounter) ==
    IF /\ userState.timer.status = "running"
       /\ userState.timer.endAt # NoTime
       /\ now >= userState.timer.endAt
       /\ safetyCounter < 100
    THEN LET counted == [userState EXCEPT !.stats.completedFocusSessions = @ + 1]
             next == IF userState.timer.phase = "focus"
                     THEN setPhaseState(counted,
                                        pickBreakPhase(counted.settings,
                                                       counted.stats.completedFocusSessions),
                                        "running", now)
                     ELSE setPhaseState(userState, "focus", "running", now)
         IN  advanceLoopFromNow(next, now, safetyCounter + 1)
    ELSE userState

\* the loop of advanceTimerIfNeeded, from the given value of safetyCounter
RECURSIVE advanceLoop(_, _, _)
advanceLoop(userState, now, safetyCounter) ==
    IF /\ userState.timer.status = "running"
       /\ userState.timer.endAt # NoTime
       /\ now >= userState.timer.endAt
       /\ safetyCounter < 100
    THEN LET transitionTime == userState.timer.endAt
             counted == [userState EXCEPT !.stats.completedFocusSessions = @ + 1]
             next == IF userState.timer.phase = "focus"
                     THEN setPhaseState(counted,
                                        pickBreakPhase(counted.settings,
                                                       counted.stats.completedFocusSessions),
                                        "running", transitionTime)
                     ELSE setPhaseState(userState, "focus", "running", transitionTime)
         IN  advanceLoop(next, now, safetyCounter + 1)
    ELSE userState

\* the user's state after advanceTimerIfNeeded and whether it changed
advanceTimerIfNeeded(userState, now) ==
    [ userState |-> advanceLoop(userState, now, 0),
      changed |-> /\ userState.timer.status = "running"
                  /\ userState.timer.endAt # NoTime
                  /\ now >= userState.timer.endAt ]

ensureUser(userState, now) ==
    IF userState = NoUser THEN createDefaultUserState(now) ELSE userState

commitUserState(userState, now) ==
    [userState EXCEPT !.version = @ + 1, !.updatedAt = now]

\* faulty variant: a second commit when more than one phase had elapsed
syncUserTimerPerPhase(stored, now) ==
    LET first == ensureUser(stored, now)
        adv == advanceTimerIfNeeded(first, now)
    IN  IF ~adv.changed THEN adv.userState
        ELSE IF adv.userState.timer.startedAt # first.timer.endAt
             THEN commitUserState(commitUserState(adv.userState, now), now)
             ELSE commitUserState(adv.userState, now)

syncUserTimer(stored, now) ==
    LET adv == advanceTimerIfNeeded(ensureUser(stored, now), now)
    IN  IF adv.changed THEN commitUserState(adv.userState, now) ELSE adv.userState

buildStateSnapshot(userState, now) ==
    [userState EXCEPT !.timer.remainingMs =
        IF userState.timer.status = "running" /\ userState.timer.endAt # NoTime
        THEN IF userState.timer.endAt - now < 0 THEN 0 ELSE userState.timer.endAt - now
        ELSE @]

\* the handlers: the user's state after the handler and the value it returns
handleStartAction(userState, now) ==
    IF userState.timer.status = "running"
    THEN [userState |-> userState, changed |-> FALSE]
    ELSE LET remainingMs == IF userState.timer.status = "paused"
                            THEN userState.timer.remainingMs
                            ELSE getPhaseDurationMs(userState.settings, userState.timer.phase)
         IN  [ userState |-> [userState EXCEPT !.timer.status = "running",
                                               !.timer.startedAt = now,
                                               !.timer.endAt = now + remainingMs,
                                               !.timer.remainingMs = remainingMs],
               changed |-> TRUE ]

handlePauseAction(userState, now) ==
    IF userState.timer.status # "running" \/ userState.timer.endAt = NoTime
    THEN [userState |-> userState, changed |-> FALSE]
    ELSE [ userState |-> [userState EXCEPT
                             !.timer.remainingMs = IF userState.timer.endAt - now < 0
                                                   THEN 0 ELSE userState.timer.endAt - now,
                             !.timer.status = "paused",
                             !.timer.startedAt = NoTime,
                             !.timer.endAt = NoTime],
           changed |-> TRUE ]

handleResetAction(userState, now) ==
    LET focusDurationMs == getPhaseDurationMs(userState.settings, "focus")
    IN  [ userState |-> [userState EXCEPT !.timer = [ phase |-> "focus",
                                                     status |-> "idle",
                                                     durationMs |-> focusDurationMs,
                                                     remainingMs |-> focusDurationMs,
                                                     startedAt |-> NoTime,
                                                     endAt |-> NoTime ],
                                          !.updatedAt = now],
          changed |-> TRUE ]

\* handleSkipAction
handleSkipAction(userState, now) ==
    LET nextPhase == IF userState.timer.phase = "focus"
                     THEN pickBreakPhase(userState.settings,
                                         userState.stats.completedFocusSessions + 1)
                     ELSE "focus"
        shouldKeepRunning == userState.timer.status = "running"
    IN  [ userState |-> setPhaseState(userState, nextPhase,
                                      IF shouldKeepRunning THEN "running" ELSE "idle", now),
          changed |-> TRUE ]

\* a field the payload of UPDATE_SETTINGS does not have
Absent == -1

MIN_DURATION_MINUTES_HUNDREDTHS == 5
MAX_DURATION_MINUTES == 180
MIN_LONG_BREAK_INTERVAL == 2
MAX_LONG_BREAK_INTERVAL == 12

\* a payload with no field
NoPayload ==
    [ focusMinutes |-> Absent, shortBreakMinutes |-> Absent, longBreakMinutes |-> Absent,
      longBreakEvery |-> Absent ]

\* validateDuration and validateLongBreakInterval return (the values are whole
\* numbers here, which roundToTwoDecimals leaves alone) rather than throw
validateDuration(value) ==
    value * 100 >= MIN_DURATION_MINUTES_HUNDREDTHS /\ value <= MAX_DURATION_MINUTES

validateLongBreakInterval(value) ==
    value >= MIN_LONG_BREAK_INTERVAL /\ value <= MAX_LONG_BREAK_INTERVAL

\* handleUpdateSettingsAction throws: a field that is present fails its
\* validation, or no field is present
updateSettingsThrows(payload) ==
    \/ payload.focusMinutes # Absent /\ ~validateDuration(payload.focusMinutes)
    \/ payload.shortBreakMinutes # Absent /\ ~validateDuration(payload.shortBreakMinutes)
    \/ payload.longBreakMinutes # Absent /\ ~validateDuration(payload.longBreakMinutes)
    \/ payload.longBreakEvery # Absent /\ ~validateLongBreakInterval(payload.longBreakEvery)
    \/ payload = NoPayload

\* { ...userState.settings, ...updates }
mergeSettings(settings, payload) ==
    [ k \in DOMAIN settings |-> IF payload[k] # Absent THEN payload[k] ELSE settings[k] ]

\* a paused timer's remainingMs in handleUpdateSettingsAction
pausedRemainingMs(remainingMs, currentPhaseDurationMs) ==
    IF remainingMs < currentPhaseDurationMs THEN remainingMs ELSE currentPhaseDurationMs

\* handleUpdateSettingsAction, when it does not throw
handleUpdateSettingsAction(userState, payload) ==
    LET settings == mergeSettings(userState.settings, payload)
        currentPhaseDurationMs == getPhaseDurationMs(settings, userState.timer.phase)
    IN  [ userState |->
              [userState EXCEPT
                  !.settings = settings,
                  !.timer.durationMs = currentPhaseDurationMs,
                  !.timer.remainingMs =
                      IF userState.timer.status = "idle" THEN currentPhaseDurationMs
                      ELSE IF userState.timer.status = "paused"
                           THEN pausedRemainingMs(@, currentPhaseDurationMs)
                           ELSE @],
          changed |-> TRUE ]

NodeActions == {"START", "PAUSE", "RESET", "SKIP", "UPDATE_SETTINGS"}

\* applyAction: the stored state it leaves and the payload it returns; when
\* the handler throws, what syncUserTimer committed stays and the response is
\* the error
applyAction(stored, type, payload, now) ==
    Only({ IF type = "UPDATE_SETTINGS" /\ updateSettingsThrows(payload)
           THEN [userState |-> synced, reason |-> "error"]
           ELSE Only({ [ userState |-> IF h.changed THEN commitUserState(h.userState, now)
                                       ELSE h.userState,
                         reason |-> IF h.changed THEN "action" ELSE "noop" ] :
                       h \in { CASE type = "START" -> handleStartAction(synced, now)
                                 [] type = "PAUSE" -> handlePauseAction(synced, now)
                                 [] type = "RESET" -> handleResetAction(synced, now)
                                 [] type = "SKIP" -> handleSkipAction(synced, now)
                                 [] OTHER -> handleUpdateSettingsAction(synced, payload) } })
           : synced \in {syncUserTimer(stored, now)} })

\* getState
getState(stored, now) == [userState |-> syncUserTimer(stored, now), reason |-> "state:read"]

\* createStatePayload
createStatePayload(userId, reason, now, userState) ==
    [ userId |-> userId, reason |-> reason, serverNow |-> now,
      state |-> buildStateSnapshot(userState, now) ]

\* `action:${actionType}`
ActionReason(actionType) ==
    CASE actionType = "START" -> "action:START"
      [] actionType = "PAUSE" -> "action:PAUSE"
      [] actionType = "RESET" -> "action:RESET"
      [] actionType = "SKIP" -> "action:SKIP"
      [] OTHER -> "action:UPDATE_SETTINGS"

\* the response objects of the event streams the service can hold at once
Streams == 1 .. MaxStreams

NoEvent == [ event |-> "none", payload |-> createStatePayload("u1", "none", 0, NoUser) ]

\* a response object no request has brought yet. `destroyed`: the socket under
\* it is gone and the request's 'close' event has not been handled; `events`
\* counts the events written to it and `last` is the last of them
NoStream ==
    [ status |-> "none", userId |-> "u1", destroyed |-> FALSE, events |-> 0,
      last |-> NoEvent ]

\* this.clients = new Map(): a bucket per user that has one, each in the
\* insertion order of its Set
NoSse == [ clients |-> <<>>, res |-> [r \in Streams |-> NoStream] ]

InBucket(res, bucket) == \E i \in 1 .. Len(bucket) : bucket[i] = res

registerClient(clients, userId, res) ==
    LET bucket == IF userId \in DOMAIN clients THEN clients[userId] ELSE <<>>
    IN  [ v \in DOMAIN clients \cup {userId} |->
            IF v # userId THEN clients[v]
            ELSE IF InBucket(res, bucket) THEN bucket ELSE Append(bucket, res) ]

unregisterClient(clients, userId, res) ==
    IF userId \notin DOMAIN clients THEN clients
    ELSE LET bucket == SelectSeq(clients[userId], LAMBDA r : r # res)
         IN  IF Len(bucket) = 0
             THEN [v \in DOMAIN clients \ {userId} |-> clients[v]]
             ELSE [clients EXCEPT ![userId] = bucket]

\* sendSseEvent: the two writes of one event. A write to a response whose
\* socket is destroyed returns without throwing and nothing reaches the client
\* (http.ServerResponse).
sendSseEvent(response, eventName, payload) ==
    IF response.destroyed THEN response
    ELSE [response EXCEPT !.events = @ + 1,
                          !.last = [event |-> eventName, payload |-> payload]]

\* a broadcast that gives up at the first response it cannot write to
broadcastStateStopping(push, userId, payload) ==
    IF userId \notin DOMAIN push.clients THEN push
    ELSE LET bucket == push.clients[userId]
             reached(r) == \E i \in 1 .. Len(bucket) :
                              /\ bucket[i] = r
                              /\ \A j \in 1 .. i : ~push.res[bucket[j]].destroyed
         IN  [push EXCEPT !.res = [ r \in Streams |->
                                      IF reached(r)
                                      THEN sendSseEvent(push.res[r], "state", payload)
                                      ELSE push.res[r] ]]

\* a broadcast that reaches the streams of every user
broadcastStateEveryone(push, userId, payload) ==
    [push EXCEPT !.res = [ r \in Streams |->
                             IF \E v \in DOMAIN push.clients : InBucket(r, push.clients[v])
                             THEN sendSseEvent(push.res[r], "state", payload)
                             ELSE push.res[r] ]]

\* broadcastState, given the payload it builds
broadcastState(push, userId, payload) ==
    IF userId \notin DOMAIN push.clients THEN push
    ELSE [push EXCEPT !.res = [ r \in Streams |->
                                  IF InBucket(r, push.clients[userId])
                                  THEN sendSseEvent(push.res[r], "state", payload)
                                  ELSE push.res[r] ]]

\* the broadcasts of a request's commits, in order: commitUserState in
\* syncUserTimer, then commitUserState in applyAction
commitPayloads(stored, userId, op, payload, now) ==
    LET first == ensureUser(stored, now)
        synced == syncUserTimer(stored, now)
        auto == IF advanceTimerIfNeeded(first, now).changed
                THEN <<createStatePayload(userId, "timer:auto", now, synced)>>
                ELSE <<>>
    IN  IF op \notin NodeActions THEN auto
        ELSE LET out == applyAction(stored, op, payload, now)
             IN  IF out.reason = "action"
                 THEN Append(auto, createStatePayload(userId, ActionReason(op), now,
                                                      out.userState))
                 ELSE auto

RECURSIVE broadcastEach(_, _, _)
broadcastEach(push, userId, payloads) ==
    IF payloads = <<>> THEN push
    ELSE broadcastEach(broadcastState(push, userId, Head(payloads)), userId, Tail(payloads))

\* openStateStream: the timer is synchronised, the response is registered and
\* sent the connected event; the handler of the request's 'close' is installed
openStateStream(push, stored, userId, res, now) ==
    LET before == broadcastEach(push, userId,
                                commitPayloads(stored, userId, "stream", NoPayload, now))
        opened == [before.res[res] EXCEPT !.status = "open", !.userId = userId]
    IN  [ clients |-> registerClient(before.clients, userId, res),
          res |-> [before.res EXCEPT ![res] =
                      sendSseEvent(opened, "state",
                                   createStatePayload(userId, "stream:connected", now,
                                                      syncUserTimer(stored, now)))] ]

\* the handler of the request's 'close' event
onStreamClose(push, res) ==
    [ clients |-> unregisterClient(push.clients, push.res[res].userId, res),
      res |-> [push.res EXCEPT ![res].status = "closed", ![res].destroyed = TRUE] ]

NoNodeResp ==
    [ op |-> "none", user |-> "u1", reason |-> "none", serverNow |-> 0,
      payload |-> NoPayload, state |-> NoUser ]

\* one request to the Node service, served to its end (the service is
\* single-threaded and synchronous); the response to a request that threw
\* carries no state
NodeServe(u, op, payload, maxVersion) ==
    \E out \in { IF op = "getState" THEN getState(nodeStore[u], NodeNow)
                 ELSE applyAction(nodeStore[u], op, payload, NodeNow) } :
        /\ out.userState.version <= maxVersion
        /\ nodeStore' = [nodeStore EXCEPT ![u] = out.userState]
        /\ nodeResp' = [ op |-> op, user |-> u, reason |-> out.reason,
                         serverNow |-> NodeNow,
                         payload |-> payload,
                         state |-> IF out.reason = "error" THEN NoUser
                                   ELSE buildStateSnapshot(out.userState, NodeNow) ]
        /\ sse' = broadcastEach(sse, u, commitPayloads(nodeStore[u], u, op, payload, NodeNow))
        /\ UNCHANGED <<clock, goVars, expressVars, sync>>

\* one request to the Node service in which saveStore throws inside
\* commitUserState: in the commit of syncUserTimer, or in the commit of the
\* action after its handler ran. The version is already bumped and the
\* handler has already changed the user's state in this.store; broadcastState
\* is not reached and the request is answered with status 500
NodeServeFailing(u, op, payload, maxVersion) ==
    \E failing \in {"timer:auto", "action"} :
    \E out \in { IF failing = "action" THEN applyAction(nodeStore[u], op, payload, NodeNow)
                 ELSE [ userState |-> syncUserTimer(nodeStore[u], NodeNow),
                        reason |-> "timer:auto" ] } :
        /\ failing = "timer:auto" =>
              advanceTimerIfNeeded(ensureUser(nodeStore[u], NodeNow), NodeNow).changed
        /\ failing = "action" => op \in NodeActions /\ out.reason = "action"
        /\ out.userState.version <= maxVersion
        /\ nodeStore' = [nodeStore EXCEPT ![u] = out.userState]
        /\ nodeResp' = [ op |-> op, user |-> u, reason |-> "internal",
                         serverNow |-> NodeNow, payload |-> payload, state |-> NoUser ]
        /\ sse' = IF failing = "action"
                  THEN broadcastEach(sse, u,
                                     commitPayloads(nodeStore[u], u, "state", payload, NodeNow))
                  ELSE sse
        /\ UNCHANGED <<clock, goVars, expressVars, sync>>

\* faulty variant: the tick advances the timers and commits nothing
handleMaintenanceTickUncommitted(store, now) ==
    [ u \in DOMAIN store |->
        IF store[u] = NoUser THEN store[u]
        ELSE advanceTimerIfNeeded(store[u], now).userState ]

\* handleMaintenanceTick: every stored user's timer is advanced and, when it
\* changed, committed
handleMaintenanceTick(store, now) ==
    [ u \in DOMAIN store |->
        IF store[u] = NoUser THEN store[u]
        ELSE LET adv == advanceTimerIfNeeded(store[u], now)
             IN  IF adv.changed THEN commitUserState(adv.userState, now) ELSE store[u] ]

\* the broadcasts of handleMaintenanceTick: one per user whose timer advanced
RECURSIVE maintenanceBroadcastsOf(_, _, _, _)
maintenanceBroadcastsOf(push, store, now, users) ==
    IF users = {} THEN push
    ELSE LET u == CHOOSE v \in users : TRUE
             sent == IF store[u] # NoUser /\ advanceTimerIfNeeded(store[u], now).changed
                     THEN broadcastState(push, u,
                                         createStatePayload(u, "timer:auto", now,
                                             handleMaintenanceTick(store, now)[u]))
                     ELSE push
         IN  maintenanceBroadcastsOf(sent, store, now, users \ {u})

maintenanceBroadcasts(push, store, now) ==
    maintenanceBroadcastsOf(push, store, now, DOMAIN store)

----------------------------------------------------------------------------
(* The Express service (server.js over db.js): the timer routes on the     *)
(* tables timer_state, settings and sessions. Durations are seconds.       *)

\* the column defaults of table settings
DefaultExpressSettings ==
    [ work_duration |-> 1500, short_break_duration |-> 300, long_break_duration |-> 900,
      long_break_interval |-> 4 ]

\* a user without a row in timer_state
NoTimerRow ==
    [ timer_type |-> "none", status |-> "idle", duration |-> 0, remaining |-> 0,
      started_at |-> NoTime, completed_count |-> 0 ]

\* a user no request has touched: settingsQueries.get inserts the defaults
NoRows == [timer |-> NoTimerRow, settings |-> DefaultExpressSettings, sessions |-> <<>>]

\* timerQueries.get: the row, inserted with the column defaults and the
\* configured work duration when the user has none
timerQueriesGet(rows) ==
    IF rows.timer = NoTimerRow
    THEN [ timer_type |-> "work", status |-> "idle",
           duration |-> rows.settings.work_duration,
           remaining |-> rows.settings.work_duration,
           started_at |-> NoTime, completed_count |-> 0 ]
    ELSE rows.timer

\* settingsQueries.update: the allowed fields of the body that are numbers > 0
settingsQueriesUpdate(settings, fields) ==
    [ k \in DOMAIN settings |-> IF fields[k] # Absent /\ fields[k] > 0 THEN fields[k]
                                ELSE settings[k] ]

\* a body of PUT /api/settings without fields
NoFields ==
    [ work_duration |-> Absent, short_break_duration |-> Absent,
      long_break_duration |-> Absent, long_break_interval |-> Absent ]

\* POST /api/timer/start with no timerType in the body
timerStart(rows, now) ==
    LET st == timerQueriesGet(rows)
        timerType == IF st.status = "paused" \/ st.timer_type \in {"short_break", "long_break"}
                     THEN st.timer_type ELSE "work"
        duration == IF st.status = "paused" THEN st.remaining
                    ELSE CASE timerType = "short_break" -> rows.settings.short_break_duration
                           [] timerType = "long_break" -> rows.settings.long_break_duration
                           [] OTHER -> rows.settings.work_duration
    IN  [rows EXCEPT !.timer =
            [st EXCEPT !.timer_type = timerType,
                       !.status = "running",
                       !.duration = IF st.status = "paused" THEN st.duration ELSE duration,
                       !.remaining = duration,
                       !.started_at = now]]

\* POST /api/timer/complete: the next timer type and the count
nextAfterComplete(timerType, completedCount, settings) ==
    IF timerType = "work"
    THEN [ type |-> IF (completedCount + 1) % settings.long_break_interval = 0
                    THEN "long_break" ELSE "short_break",
           count |-> completedCount + 1 ]
    ELSE [type |-> "work", count |-> completedCount]

\* POST /api/timer/complete
timerComplete(rows) ==
    LET st == timerQueriesGet(rows)
        next == nextAfterComplete(st.timer_type, st.completed_count, rows.settings)
        nextDuration == CASE next.type = "long_break" -> rows.settings.long_break_duration
                          [] next.type = "short_break" -> rows.settings.short_break_duration
                          [] OTHER -> rows.settings.work_duration
    IN  [ timer |-> [ timer_type |-> next.type, status |-> "idle",
                      duration |-> nextDuration, remaining |-> nextDuration,
                      started_at |-> NoTime, completed_count |-> next.count ],
          settings |-> rows.settings,
          sessions |-> Append(rows.sessions,
                              [timer_type |-> st.timer_type, duration |-> st.duration]) ]

----------------------------------------------------------------------------
(* The Express service's SyncManager (ws.js): WebSocket connections, the    *)
(* registry of authenticated connections per user and the heartbeat.        *)

Sockets == 1 .. MaxSockets

\* ws.userId = null
NoUserId == "none"

\* a connection not made yet. status "open": readyState 1; "terminated":
\* terminate() was called and the 'close' event has not been handled;
\* "closed": the 'close' event was handled and the connection has left
\* wss.clients. `received` counts the messages sent to it
NoSocket == [ status |-> "none", userId |-> NoUserId, isAlive |-> FALSE, received |-> 0 ]

\* this.clients = new Map() and no connection; `beats` counts the heartbeats
NoSync == [ clients |-> <<>>, ws |-> [w \in Sockets |-> NoSocket], beats |-> 0 ]

\* wss.clients
wssClients(manager) == { w \in Sockets : manager.ws[w].status \in {"open", "terminated"} }

\* the connection that excludeWs = null stands for
NoWs == 0

\* broadcast
broadcast(manager, userId, excludeWs) ==
    IF userId \notin DOMAIN manager.clients THEN manager
    ELSE [manager EXCEPT !.ws = [ w \in Sockets |->
             IF /\ w \in manager.clients[userId]
                /\ w # excludeWs
                /\ manager.ws[w].status = "open"
             THEN [manager.ws[w] EXCEPT !.received = @ + 1]
             ELSE manager.ws[w] ]]

\* broadcastAll
broadcastAll(manager, userId) ==
    IF userId \notin DOMAIN manager.clients THEN manager
    ELSE [manager EXCEPT !.ws = [ w \in Sockets |->
             IF w \in manager.clients[userId] /\ manager.ws[w].status = "open"
             THEN [manager.ws[w] EXCEPT !.received = @ + 1]
             ELSE manager.ws[w] ]]

\* the handler of 'connection'
onConnection(manager, w) ==
    [manager EXCEPT !.ws[w] = [ status |-> "open", userId |-> NoUserId, isAlive |-> TRUE,
                               received |-> 0 ]]

\* _handleMessage of an auth message whose token verifies for userId, or
\* does not verify (userId = NoUserId)
handleMessage(manager, w, userId) ==
    IF userId = NoUserId
    THEN [manager EXCEPT !.ws[w].received = @ + 1]
    ELSE LET bucket == IF userId \in DOMAIN manager.clients
                       THEN manager.clients[userId] ELSE {}
             joined ==
                 [ clients |-> [ v \in DOMAIN manager.clients \cup {userId} |->
                                   IF v = userId THEN bucket \cup {w}
                                   ELSE manager.clients[v] ],
                   ws |-> [manager.ws EXCEPT ![w].userId = userId,
                                             ![w].received = @ + 1],
                   beats |-> manager.beats ]
         IN  broadcast(joined, userId, w)

\* _removeClient
removeClient(manager, w) ==
    LET userId == manager.ws[w].userId
    IN  IF userId # NoUserId /\ userId \in DOMAIN manager.clients
        THEN LET userClients == manager.clients[userId] \ {w}
             IN  IF userClients = {}
                 THEN [manager EXCEPT
                          !.clients = [v \in DOMAIN manager.clients \ {userId} |->
                                          manager.clients[v]]]
                 ELSE broadcast([manager EXCEPT !.clients[userId] = userClients],
                                userId, NoWs)
        ELSE manager

\* the handler of 'close' (and of 'error', which does the same)
onClose(manager, w) ==
    [removeClient(manager, w) EXCEPT !.ws[w].status = "closed"]

\* the body of the heartbeat's forEach for one connection
heartbeatOne(manager, w) ==
    IF w \notin wssClients(manager) THEN manager
    ELSE IF ~manager.ws[w].isAlive
         THEN [removeClient(manager, w) EXCEPT !.ws[w].status = "terminated"]
         ELSE [manager EXCEPT !.ws[w].isAlive = FALSE]

\* the heartbeat, over wss.clients in the order the connections were made
RECURSIVE heartbeatFrom(_, _)
heartbeatFrom(manager, w) ==
    IF w > MaxSockets THEN manager
    ELSE heartbeatFrom(heartbeatOne(manager, w), w + 1)

heartbeat(manager) == [heartbeatFrom(manager, 1) EXCEPT !.beats = @ + 1]

----------------------------------------------------------------------------
(* State *)

\* faulty variant: the remaining time is taken from the wrong default
InitialStateShortBreak(now) ==
    [ mode |-> ModeFocus,
      status |-> StatusIdle,
      remainingSeconds |-> DefaultShortBreakDurationSeconds,
      focusDurationSeconds |-> DefaultFocusDurationSeconds,
      shortBreakDurationSeconds |-> DefaultShortBreakDurationSeconds,
      longBreakDurationSeconds |-> DefaultLongBreakDurationSeconds,
      startedAt |-> NoTime,
      sessionId |-> NoSession,
      version |-> 1,
      updatedAt |-> now ]

\* repository.CreateInitialState
InitialState(now) ==
    [ mode |-> ModeFocus,
      status |-> StatusIdle,
      remainingSeconds |-> DefaultFocusDurationSeconds,
      focusDurationSeconds |-> DefaultFocusDurationSeconds,
      shortBreakDurationSeconds |-> DefaultShortBreakDurationSeconds,
      longBreakDurationSeconds |-> DefaultLongBreakDurationSeconds,
      startedAt |-> NoTime,
      sessionId |-> NoSession,
      version |-> 1,
      updatedAt |-> now ]

NoView == toStateView(InitialState(0), 0)

\* the outcome of a racing request, recorded in the requests it raced with
NoRival == [kind |-> "none", commit |-> FALSE, view |-> NoView]

NoResp ==
    [ kind |-> "none", op |-> "none", user |-> "u1", baseVersion |-> 0,
      commit |-> FALSE, view |-> NoView, followsConflict |-> FALSE, rival |-> NoRival,
      mode |-> ModeFocus, settings |-> <<1, 1, 1>> ]

Init ==
    /\ clock = 0
    /\ state = [u \in Users |-> InitialState(0)]
    /\ sessions = <<>>
    /\ pending = {}
    /\ resp = NoResp
    /\ lastConflict = [u \in Users |-> 0]
    /\ ran = [u \in Users |-> <<>>]
    /\ nodeStore = [u \in Users |-> NoUser]
    /\ nodeResp = NoNodeResp
    /\ db = [u \in Users |-> NoRows]
    /\ sse = NoSse
    /\ sync = NoSync

----------------------------------------------------------------------------
(* Actions *)

\* time passes
Tick(maxClock) ==
    /\ clock < maxClock
    /\ clock' = clock + 1
    /\ UNCHANGED <<goVars, nodeVars, expressVars, pushVars>>

\* the timer is left unattended for the length of a default focus phase
Unattended(maxClock) ==
    /\ clock <= maxClock
    /\ clock' = clock + DefaultFocusDurationSeconds * TicksPerSecond
    /\ UNCHANGED <<goVars, nodeVars, expressVars, pushVars>>

\* a request of the handlers, entering the service method, which reads the
\* clock first
Request(u, op, baseVersion, mode, settings) ==
    [ op |-> op, user |-> u,
      baseVersion |-> IF op = "getState" THEN 0 ELSE baseVersion,
      now |-> clock,
      mode |-> IF op = "switchMode" THEN mode ELSE ModeFocus,
      settings |-> IF op = "updateSettings" THEN settings ELSE <<1, 1, 1>>,
      followsConflict |-> op # "getState" /\ lastConflict[u] # 0 /\ lastConflict[u] = baseVersion,
      rival |-> NoRival,
      dup |-> 1 ]

\* handler: a mutation whose baseVersion is not positive is answered 400 and
\* never reaches the service
Rejected(r) ==
    /\ r.op \in Mutations /\ r.baseVersion <= 0
    /\ resp' = [NoResp EXCEPT !.kind = "bad_request", !.op = r.op, !.user = r.user,
                              !.baseVersion = r.baseVersion, !.mode = r.mode,
                              !.settings = r.settings]
    /\ UNCHANGED <<clock, state, sessions, pending, lastConflict, ran, nodeVars, expressVars, pushVars>>

\* a request that the service does not reject before it opens its transaction
Valid(r) ==
    /\ r.op = "switchMode" => isValidMode(r.mode)
    /\ r.op = "updateSettings" => validDurations(r.settings)

\* the requests that race with r: waiting mutations of the same user carrying
\* the same baseVersion
Racing(r) ==
    {t \in pending \ {r} :
        /\ t.op \in Mutations /\ r.op \in Mutations /\ Valid(t) /\ Valid(r)
        /\ t.user = r.user /\ t.baseVersion = r.baseVersion}

\* the transaction of request r, from BeginTx to Commit or Rollback, and its
\* response
Exec(r, maxVersion) ==
    \E out \in {ResultOf(r, state[r.user], sessions)} :
    LET u == r.user
        changed == out.st # state[u] \/ out.sess # sessions
        racing == Racing(r)
    IN  /\ ~(r.op \in Mutations /\ r.baseVersion <= 0)
        /\ out.st.version <= maxVersion
        /\ Len(out.sess) <= MaxSessions
        /\ state' = [state EXCEPT ![u] = out.st]
        /\ sessions' = out.sess
        /\ resp' = [ kind |-> out.kind, op |-> r.op, user |-> u,
                     baseVersion |-> r.baseVersion, commit |-> out.commit,
                     view |-> out.view, followsConflict |-> r.followsConflict,
                     rival |-> r.rival, mode |-> r.mode, settings |-> r.settings ]
        /\ lastConflict' = [lastConflict EXCEPT ![u] =
                               IF out.kind = "conflict" THEN out.view.version
                               ELSE IF changed THEN 0 ELSE @]
        /\ ran' = [ran EXCEPT ![u] =
                      IF out.st.sessionId = NoSession THEN <<>>
                      ELSE IF out.st.sessionId # state[u].sessionId THEN <<>>
                      ELSE IF state[u].status = StatusRunning /\ out.st.status = StatusPaused
                           THEN Append(@, r.now - state[u].startedAt)
                           ELSE @]
        /\ pending' = { [t EXCEPT !.rival = IF t \in racing /\ ~t.rival.commit
                                             THEN [kind |-> out.kind, commit |-> out.commit,
                                                   view |-> out.view]
                                             ELSE @,
                                  !.followsConflict = IF changed /\ t.user = u THEN FALSE ELSE @]
                        : t \in pending \ {r} }
        /\ UNCHANGED <<clock, nodeVars, expressVars, pushVars>>

\* tx.Rollback(), deferred by every service method: the rows as they were
\* when the transaction began, whatever the transaction had written
txRollback(committed, written) == committed

\* the transaction of request r when one of its writes for the mutation
\* fails (UpdateStateTx after InsertSessionTx in Start, or the Commit): the
\* method returns an internal error and the deferred Rollback runs
ExecFailing(r) ==
    \E out \in {ResultOf(r, state[r.user], sessions)} :
    \E after \in {txRollback([st |-> state[r.user], sess |-> sessions],
                             [st |-> out.st, sess |-> out.sess])} :
        /\ r.op \in Mutations /\ r.baseVersion > 0
        /\ out.kind = "ok"
        /\ out.st # state[r.user] \/ out.sess # sessions
        /\ state' = [state EXCEPT ![r.user] = after.st]
        /\ sessions' = after.sess
        /\ resp' = [NoResp EXCEPT !.kind = "internal", !.op = r.op, !.user = r.user,
                                  !.baseVersion = r.baseVersion]
        /\ UNCHANGED <<clock, pending, lastConflict, ran, nodeVars, expressVars, pushVars>>

BaseVersionInputs(u) == {state[u].version - 1, state[u].version, state[u].version + 1}

----------------------------------------------------------------------------
(* Requests served one at a time: the connection is free, BeginTx does not *)
(* wait and the transaction runs at the time the clock was read.           *)

Serve(request) == \E r \in {request} : Rejected(r) \/ Exec(r, MaxVersion)

GetState == \E u \in ActiveUsers : Serve(Request(u, "getState", 0, ModeFocus, <<1, 1, 1>>))
Start == \E u \in ActiveUsers : \E b \in BaseVersionInputs(u) :
            Serve(Request(u, "start", b, ModeFocus, <<1, 1, 1>>))
Pause == \E u \in ActiveUsers : \E b \in BaseVersionInputs(u) :
            Serve(Request(u, "pause", b, ModeFocus, <<1, 1, 1>>))
Reset == \E u \in ActiveUsers : \E b \in BaseVersionInputs(u) :
            Serve(Request(u, "reset", b, ModeFocus, <<1, 1, 1>>))
SwitchMode == \E u \in ActiveUsers, m \in ModeInputs : \E b \in BaseVersionInputs(u) :
            Serve(Request(u, "switchMode", b, m, <<1, 1, 1>>))
UpdateSettings == \E u \in ActiveUsers, si \in SettingsInputs : \E b \in BaseVersionInputs(u) :
            Serve(Request(u, "updateSettings", b, ModeFocus, si))

Next ==
    \/ Tick(MaxClock)
    \/ Unattended(MaxClock)
    \/ GetState
    \/ Start
    \/ Pause
    \/ Reset
    \/ SwitchMode
    \/ UpdateSettings

Spec == Init /\ [][Next]_vars

----------------------------------------------------------------------------
(* The timer operations alone (start, pause, reset and reads), over a      *)
(* longer run.                                                             *)

ServeTimer(request) == \E r \in {request} : Exec(r, TimerMaxVersion)

TimerTick == Tick(TimerMaxClock)
TimerUnattended == Unattended(TimerMaxClock)
TimerGetState == \E u \in ActiveUsers : ServeTimer(Request(u, "getState", 0, ModeFocus, <<1, 1, 1>>))
TimerStart == \E u \in ActiveUsers : \E b \in {state[u].version} :
                 ServeTimer(Request(u, "start", b, ModeFocus, <<1, 1, 1>>))
TimerPause == \E u \in ActiveUsers : \E b \in {state[u].version} :
                 ServeTimer(Request(u, "pause", b, ModeFocus, <<1, 1, 1>>))
TimerReset == \E u \in ActiveUsers : \E b \in {state[u].version} :
                 ServeTimer(Request(u, "reset", b, ModeFocus, <<1, 1, 1>>))

NextTimer ==
    \/ TimerTick
    \/ TimerUnattended
    \/ TimerGetState
    \/ TimerStart
    \/ TimerPause
    \/ TimerReset

SpecTimer == Init /\ [][NextTimer]_vars

----------------------------------------------------------------------------
(* The two services side by side, on one clock: reads, start and pause of  *)
(* the Go service; reads, START, PAUSE and RESET of the Node service.      *)

ServeBoth(request) == \E r \in {request} : Exec(r, BothMaxVersion)

\* the version a client holds: the stored one, or the one of the snapshot of
\* a reconciled state
HeldVersions(u) == {state[u].version, state[u].version + 1}

BothTick == Tick(BothMaxClock)
BothUnattended == Unattended(BothMaxClock)
BothGetState == \E u \in ActiveUsers : ServeBoth(Request(u, "getState", 0, ModeFocus, <<1, 1, 1>>))
BothStart == \E u \in ActiveUsers : \E b \in HeldVersions(u) :
                ServeBoth(Request(u, "start", b, ModeFocus, <<1, 1, 1>>))
BothPause == \E u \in ActiveUsers : \E b \in HeldVersions(u) :
                ServeBoth(Request(u, "pause", b, ModeFocus, <<1, 1, 1>>))
NodeGetState == \E u \in ActiveUsers : NodeServe(u, "getState", NoPayload, BothMaxVersion)
NodeStart == \E u \in ActiveUsers : NodeServe(u, "START", NoPayload, BothMaxVersion)
NodePause == \E u \in ActiveUsers : NodeServe(u, "PAUSE", NoPayload, BothMaxVersion)
NodeReset == \E u \in ActiveUsers : NodeServe(u, "RESET", NoPayload, BothMaxVersion)

NextBoth ==
    \/ BothTick
    \/ BothUnattended
    \/ BothGetState
    \/ BothStart
    \/ BothPause
    \/ NodeGetState
    \/ NodeStart
    \/ NodePause
    \/ NodeReset

SpecBoth == Init /\ [][NextBoth]_vars

----------------------------------------------------------------------------
(* Settings: either service, with the requests that change the durations,  *)
(* valid and invalid, while the timer is idle, running or paused.          *)

\* UpdateSettingsRequest bodies: longer durations, shorter ones, a rejected one
GoSettingsInputs == {<<1800, 600, 900>>, <<1, 2, 3>>, <<0, 5, 5>>}

\* payloads of UPDATE_SETTINGS: accepted ones, one with a valid field before
\* an invalid one, out-of-range ones and one without fields
NodeSettingsPayloads ==
    { [NoPayload EXCEPT !.focusMinutes = 30, !.shortBreakMinutes = 10],
      [NoPayload EXCEPT !.focusMinutes = 1, !.longBreakEvery = 2],
      [NoPayload EXCEPT !.focusMinutes = 30, !.shortBreakMinutes = 0],
      [NoPayload EXCEPT !.longBreakMinutes = 181],
      [NoPayload EXCEPT !.focusMinutes = 1, !.longBreakEvery = 13],
      NoPayload }

\* a deployment runs one of the two services: the Go service serves as long
\* as no request went to the Node service, and the reverse
GoDeployed == nodeResp = NoNodeResp /\ db = [u \in Users |-> NoRows]
NodeDeployed == resp = NoResp /\ db = [u \in Users |-> NoRows]
ExpressDeployed == resp = NoResp /\ nodeResp = NoNodeResp

ServeSettings(request) == \E r \in {request} : GoDeployed /\ Exec(r, SettingsMaxVersion)

NodeServeSettings(u, op, payload) == NodeDeployed /\ NodeServe(u, op, payload, SettingsMaxVersion)

SettingsTick == Tick(SettingsMaxClock)
SettingsUnattended == Unattended(SettingsMaxClock)
SettingsGetState ==
    \E u \in ActiveUsers : ServeSettings(Request(u, "getState", 0, ModeFocus, <<1, 1, 1>>))
SettingsStart ==
    \E u \in ActiveUsers : \E b \in {state[u].version} :
       ServeSettings(Request(u, "start", b, ModeFocus, <<1, 1, 1>>))
SettingsPause ==
    \E u \in ActiveUsers : \E b \in {state[u].version} :
       ServeSettings(Request(u, "pause", b, ModeFocus, <<1, 1, 1>>))
SettingsReset ==
    \E u \in ActiveUsers : \E b \in {state[u].version} :
       ServeSettings(Request(u, "reset", b, ModeFocus, <<1, 1, 1>>))
SettingsUpdateSettings ==
    \E u \in ActiveUsers, si \in GoSettingsInputs : \E b \in {state[u].version} :
       ServeSettings(Request(u, "updateSettings", b, ModeFocus, si))
\* requests the Go service answers 400: a mode that is none of the three, or
\* a baseVersion that is not positive
SettingsInvalid ==
    \E u \in ActiveUsers :
       \/ \E b \in {state[u].version} :
             ServeSettings(Request(u, "switchMode", b, "nap", <<1, 1, 1>>))
       \/ \E op \in Mutations, si \in GoSettingsInputs :
             GoDeployed /\ Rejected(Request(u, op, 0, ModeShortBreak, si))
NodeSettingsGetState == \E u \in ActiveUsers : NodeServeSettings(u, "getState", NoPayload)
NodeSettingsStart == \E u \in ActiveUsers : NodeServeSettings(u, "START", NoPayload)
NodeSettingsPause == \E u \in ActiveUsers : NodeServeSettings(u, "PAUSE", NoPayload)
NodeSettingsUpdateSettings ==
    \E u \in ActiveUsers, payload \in NodeSettingsPayloads :
       NodeServeSettings(u, "UPDATE_SETTINGS", payload)

NextSettings ==
    \/ SettingsTick
    \/ SettingsUnattended
    \/ SettingsGetState
    \/ SettingsStart
    \/ SettingsPause
    \/ SettingsReset
    \/ SettingsUpdateSettings
    \/ SettingsInvalid
    \/ NodeSettingsGetState
    \/ NodeSettingsStart
    \/ NodeSettingsPause
    \/ NodeSettingsUpdateSettings

SpecSettings == Init /\ [][NextSettings]_vars

----------------------------------------------------------------------------
(* The ledger: every operation of the Go service on one user, long enough  *)
(* for a second session to be opened and closed after a first one.         *)

LedgerModeInputs == {ModeFocus, ModeShortBreak}
LedgerSettingsInputs == {<<1800, 600, 900>>, <<1, 2, 3>>}

ServeLedger(request) == \E r \in {request} : Exec(r, LedgerMaxVersion)

LedgerTick == Tick(LedgerMaxClock)
LedgerUnattended == Unattended(LedgerMaxClock)
LedgerGetState ==
    \E u \in ActiveUsers : ServeLedger(Request(u, "getState", 0, ModeFocus, <<1, 1, 1>>))
LedgerStart ==
    \E u \in ActiveUsers : \E b \in {state[u].version} :
       ServeLedger(Request(u, "start", b, ModeFocus, <<1, 1, 1>>))
LedgerPause ==
    \E u \in ActiveUsers : \E b \in {state[u].version} :
       ServeLedger(Request(u, "pause", b, ModeFocus, <<1, 1, 1>>))
LedgerReset ==
    \E u \in ActiveUsers : \E b \in HeldVersions(u) :
       ServeLedger(Request(u, "reset", b, ModeFocus, <<1, 1, 1>>))
LedgerSwitchMode ==
    \E u \in ActiveUsers, m \in LedgerModeInputs : \E b \in HeldVersions(u) :
       ServeLedger(Request(u, "switchMode", b, m, <<1, 1, 1>>))
LedgerUpdateSettings ==
    \E u \in ActiveUsers, si \in LedgerSettingsInputs : \E b \in {state[u].version} :
       ServeLedger(Request(u, "updateSettings", b, ModeFocus, si))

NextLedger ==
    \/ LedgerTick
    \/ LedgerUnattended
    \/ LedgerGetState
    \/ LedgerStart
    \/ LedgerPause
    \/ LedgerReset
    \/ LedgerSwitchMode
    \/ LedgerUpdateSettings

SpecLedger == Init /\ [][NextLedger]_vars

----------------------------------------------------------------------------
(* The cycle of phases: the Node service, or the Express service, over     *)
(* minutes, with phases short enough to follow one another.                *)

\* payloads of UPDATE_SETTINGS: phases of one and two minutes, a long break
\* every second focus session
CycleSettingsPayloads ==
    { [focusMinutes |-> 1, shortBreakMinutes |-> 1, longBreakMinutes |-> 2, longBreakEvery |-> 2],
      [NoPayload EXCEPT !.longBreakEvery = 3] }

\* bodies of PUT /api/settings
CycleSettingsFields == { [NoFields EXCEPT !.long_break_interval = 2] }

NodeServeCycle(u, op, payload) == NodeDeployed /\ NodeServe(u, op, payload, CycleMaxVersion)

\* a minute passes
CycleMinute ==
    /\ clock < CycleMaxMinutes * 60 * TicksPerSecond
    /\ clock' = clock + 60 * TicksPerSecond
    /\ UNCHANGED <<goVars, nodeVars, expressVars, pushVars>>

CycleUnattended == Unattended(CycleMaxMinutes * 60 * TicksPerSecond)
CycleGetState == \E u \in ActiveUsers : NodeServeCycle(u, "getState", NoPayload)
CycleStart == \E u \in ActiveUsers : NodeServeCycle(u, "START", NoPayload)
CyclePause == \E u \in ActiveUsers : NodeServeCycle(u, "PAUSE", NoPayload)
CycleUpdateSettings ==
    \E u \in ActiveUsers, payload \in CycleSettingsPayloads :
       NodeServeCycle(u, "UPDATE_SETTINGS", payload)

\* the maintenance timer fires
CycleMaintenanceTick ==
    /\ NodeDeployed
    /\ \A u \in Users : handleMaintenanceTick(nodeStore, NodeNow)[u].version <= CycleMaxVersion
    /\ nodeStore' = handleMaintenanceTick(nodeStore, NodeNow)
    /\ nodeStore' # nodeStore
    /\ sse' = maintenanceBroadcasts(sse, nodeStore, NodeNow)
    /\ UNCHANGED <<clock, goVars, nodeResp, expressVars, sync>>

\* one request to the Express service
ExpressServe(u, rows) ==
    /\ ExpressDeployed
    /\ Len(rows.sessions) <= CycleMaxCompleted
    /\ db' = [db EXCEPT ![u] = rows]
    /\ sync' = broadcastAll(sync, u)
    /\ UNCHANGED <<clock, goVars, nodeVars, sse>>

ExpressStart == \E u \in ActiveUsers : ExpressServe(u, timerStart(db[u], clock))
ExpressComplete == \E u \in ActiveUsers : ExpressServe(u, timerComplete(db[u]))
ExpressUpdateSettings ==
    \E u \in ActiveUsers, fields \in CycleSettingsFields :
       ExpressServe(u, [db[u] EXCEPT !.settings = settingsQueriesUpdate(@, fields)])

NextCycle ==
    \/ CycleMinute
    \/ CycleUnattended
    \/ CycleGetState
    \/ CycleStart
    \/ CyclePause
    \/ CycleUpdateSettings
    \/ CycleMaintenanceTick
    \/ ExpressStart
    \/ ExpressComplete
    \/ ExpressUpdateSettings

SpecCycle == Init /\ [][NextCycle]_vars

----------------------------------------------------------------------------
(* Reads: either service, with reads that follow one another at the same   *)
(* instant, after short and after long absences.                           *)

\* payload of UPDATE_SETTINGS: every phase lasts a minute
ReadSettingsPayloads ==
    { [focusMinutes |-> 1, shortBreakMinutes |-> 1, longBreakMinutes |-> 1, longBreakEvery |-> 2] }

ServeRead(request) == \E r \in {request} : GoDeployed /\ Exec(r, ReadMaxVersion)
NodeServeRead(u, op, payload) == NodeDeployed /\ NodeServe(u, op, payload, ReadMaxVersion)

ReadTick == Tick(ReadMaxClock)
ReadUnattended == Unattended(ReadMaxClock)

\* no request and no maintenance tick for a long time (the process is down,
\* the store is on disk)
ReadAbsence ==
    /\ clock <= ReadMaxClock
    /\ clock' = clock + ReadAbsenceMinutes * 60 * TicksPerSecond
    /\ UNCHANGED <<goVars, nodeVars, expressVars, pushVars>>

ReadGetState ==
    \E u \in ActiveUsers : ServeRead(Request(u, "getState", 0, ModeFocus, <<1, 1, 1>>))
ReadStart ==
    \E u \in ActiveUsers : \E b \in {state[u].version} :
       ServeRead(Request(u, "start", b, ModeFocus, <<1, 1, 1>>))
ReadPause ==
    \E u \in ActiveUsers : \E b \in {state[u].version} :
       ServeRead(Request(u, "pause", b, ModeFocus, <<1, 1, 1>>))
NodeReadGetState == \E u \in ActiveUsers : NodeServeRead(u, "getState", NoPayload)
NodeReadStart == \E u \in ActiveUsers : NodeServeRead(u, "START", NoPayload)
NodeReadPause == \E u \in ActiveUsers : NodeServeRead(u, "PAUSE", NoPayload)
NodeReadUpdateSettings ==
    \E u \in ActiveUsers, payload \in ReadSettingsPayloads :
       NodeServeRead(u, "UPDATE_SETTINGS", payload)

NextRead ==
    \/ ReadTick
    \/ ReadUnattended
    \/ ReadAbsence
    \/ ReadGetState
    \/ ReadStart
    \/ ReadPause
    \/ NodeReadGetState
    \/ NodeReadStart
    \/ NodeReadPause
    \/ NodeReadUpdateSettings

SpecRead == Init /\ [][NextRead]_vars

----------------------------------------------------------------------------
(* The Go service used by two users at once, each with requests that carry *)
(* the version the user's state has.                                       *)

ServeShared(request) == \E r \in {request} : GoDeployed /\ Exec(r, SharedMaxVersion)

SharedTick == Tick(SharedMaxClock)
SharedUnattended == Unattended(SharedMaxClock)
SharedGetState ==
    \E u \in Users : ServeShared(Request(u, "getState", 0, ModeFocus, <<1, 1, 1>>))
SharedStart ==
    \E u \in Users : \E b \in {state[u].version} :
       ServeShared(Request(u, "start", b, ModeFocus, <<1, 1, 1>>))
SharedPause ==
    \E u \in Users : \E b \in {state[u].version} :
       ServeShared(Request(u, "pause", b, ModeFocus, <<1, 1, 1>>))
SharedReset ==
    \E u \in Users : \E b \in {state[u].version} :
       ServeShared(Request(u, "reset", b, ModeFocus, <<1, 1, 1>>))
SharedSwitchMode ==
    \E u \in Users : \E b \in {state[u].version} :
       ServeShared(Request(u, "switchMode", b, ModeShortBreak, <<1, 1, 1>>))
SharedUpdateSettings ==
    \E u \in Users : \E b \in {state[u].version} :
       ServeShared(Request(u, "updateSettings", b, ModeFocus, <<1800, 600, 900>>))

NextShared ==
    \/ SharedTick
    \/ SharedUnattended
    \/ SharedGetState
    \/ SharedStart
    \/ SharedPause
    \/ SharedReset
    \/ SharedSwitchMode
    \/ SharedUpdateSettings

SpecShared == Init /\ [][NextShared]_vars

----------------------------------------------------------------------------
(* The Go service and the Node service with persistence that can fail in   *)
(* the middle of a mutation.                                               *)

ServeFailure(request) == \E r \in {request} : GoDeployed /\ Exec(r, FailureMaxVersion)
NodeServeFailure(u, op, payload) ==
    NodeDeployed /\ NodeServe(u, op, payload, FailureMaxVersion)

FailureTick == Tick(FailureMaxClock)
FailureUnattended == Unattended(FailureMaxClock)
FailureGetState ==
    \E u \in ActiveUsers : ServeFailure(Request(u, "getState", 0, ModeFocus, <<1, 1, 1>>))
FailureStart ==
    \E u \in ActiveUsers : \E b \in {state[u].version} :
       ServeFailure(Request(u, "start", b, ModeFocus, <<1, 1, 1>>))
FailurePause ==
    \E u \in ActiveUsers : \E b \in {state[u].version} :
       ServeFailure(Request(u, "pause", b, ModeFocus, <<1, 1, 1>>))
\* a mutation of the Go service whose transaction fails
FailureGoFails ==
    \E u \in ActiveUsers, op \in {"start", "pause", "reset"} : \E b \in {state[u].version} :
       GoDeployed /\ ExecFailing(Request(u, op, b, ModeFocus, <<1, 1, 1>>))
NodeFailureGetState == \E u \in ActiveUsers : NodeServeFailure(u, "getState", NoPayload)
NodeFailureStart == \E u \in ActiveUsers : NodeServeFailure(u, "START", NoPayload)
NodeFailurePause == \E u \in ActiveUsers : NodeServeFailure(u, "PAUSE", NoPayload)
\* a request to the Node service during which the store file cannot be written
NodeFailureSaveFails ==
    \E u \in ActiveUsers, op \in {"getState", "START", "PAUSE"} :
       NodeDeployed /\ NodeServeFailing(u, op, NoPayload, FailureMaxVersion)

NextFailure ==
    \/ FailureTick
    \/ FailureUnattended
    \/ FailureGetState
    \/ FailureStart
    \/ FailurePause
    \/ FailureGoFails
    \/ NodeFailureGetState
    \/ NodeFailureStart
    \/ NodeFailurePause
    \/ NodeFailureSaveFails

SpecFailure == Init /\ [][NextFailure]_vars

----------------------------------------------------------------------------
(* The Node service with its event streams: clients open and close         *)
(* streams, sockets die before their 'close' is handled, and the timer is  *)
(* driven by requests and by the maintenance tick.                         *)

NodeServePush(u, op, payload) == NodeDeployed /\ NodeServe(u, op, payload, PushMaxVersion)

PushTick == Tick(PushMaxClock)
PushUnattended == Unattended(PushMaxClock)

\* GET /api/stream: the response object is the next one not used yet
PushOpenStream ==
    \E u \in Users, r \in Streams :
       /\ NodeDeployed
       /\ sse.res[r].status = "none"
       /\ \A q \in 1 .. r - 1 : sse.res[q].status # "none"
       /\ syncUserTimer(nodeStore[u], NodeNow).version <= PushMaxVersion
       /\ nodeStore' = [nodeStore EXCEPT ![u] = syncUserTimer(nodeStore[u], NodeNow)]
       /\ sse' = openStateStream(sse, nodeStore[u], u, r, NodeNow)
       /\ UNCHANGED <<clock, goVars, nodeResp, expressVars, sync>>

\* the socket under a stream is destroyed; its 'close' is still to be handled
PushDestroy ==
    \E r \in Streams :
       /\ sse.res[r].status = "open"
       /\ ~sse.res[r].destroyed
       /\ sse' = [sse EXCEPT !.res[r].destroyed = TRUE]
       /\ UNCHANGED <<clock, goVars, nodeVars, expressVars, sync>>

\* the 'close' of a stream's request is handled
PushClose ==
    \E r \in Streams :
       /\ sse.res[r].status = "open"
       /\ sse' = onStreamClose(sse, r)
       /\ UNCHANGED <<clock, goVars, nodeVars, expressVars, sync>>

PushGetState == \E u \in ActiveUsers : NodeServePush(u, "getState", NoPayload)
PushStart == \E u \in ActiveUsers : NodeServePush(u, "START", NoPayload)
PushPause == \E u \in ActiveUsers : NodeServePush(u, "PAUSE", NoPayload)

\* the maintenance timer fires
PushMaintenanceTick ==
    /\ NodeDeployed
    /\ \A u \in Users : handleMaintenanceTick(nodeStore, NodeNow)[u].version <= PushMaxVersion
    /\ nodeStore' = handleMaintenanceTick(nodeStore, NodeNow)
    /\ nodeStore' # nodeStore
    /\ sse' = maintenanceBroadcasts(sse, nodeStore, NodeNow)
    /\ UNCHANGED <<clock, goVars, nodeResp, expressVars, sync>>

NextPush ==
    \/ PushTick
    \/ PushUnattended
    \/ PushOpenStream
    \/ PushDestroy
    \/ PushClose
    \/ PushGetState
    \/ PushStart
    \/ PushPause
    \/ PushMaintenanceTick

SpecPush == Init /\ [][NextPush]_vars

----------------------------------------------------------------------------
(* The Express service with its SyncManager: connections are made,         *)
(* authenticate, answer pings or not, and close; the heartbeat fires; the  *)
(* timer route broadcasts to the user's connections.                       *)

ReceivedBounded(manager) == \A w \in Sockets : manager.ws[w].received <= MaxReceived

SyncStep(manager) ==
    /\ ExpressDeployed
    /\ ReceivedBounded(manager)
    /\ sync' = manager
    /\ UNCHANGED <<clock, goVars, nodeVars, expressVars, sse>>

\* a client connects: the connection is the next one not used yet
SyncConnection ==
    \E w \in Sockets :
       /\ sync.ws[w].status = "none"
       /\ \A q \in 1 .. w - 1 : sync.ws[q].status # "none"
       /\ SyncStep(onConnection(sync, w))

\* an auth message arrives on an open connection
SyncAuth ==
    \E w \in Sockets, userId \in Users \cup {NoUserId} :
       /\ sync.ws[w].status = "open"
       /\ SyncStep(handleMessage(sync, w, userId))

\* a pong arrives
SyncPong ==
    \E w \in Sockets :
       /\ sync.ws[w].status = "open"
       /\ SyncStep([sync EXCEPT !.ws[w].isAlive = TRUE])

\* the 'close' of a connection is handled
SyncClose ==
    \E w \in Sockets :
       /\ w \in wssClients(sync)
       /\ SyncStep(onClose(sync, w))

\* the heartbeat interval fires
SyncHeartbeat ==
    /\ sync.beats < MaxBeats
    /\ SyncStep(heartbeat(sync))

\* POST /api/timer/start
SyncTimerStart ==
    /\ ReceivedBounded(broadcastAll(sync, "u1"))
    /\ ExpressStart

NextSync ==
    \/ SyncConnection
    \/ SyncAuth
    \/ SyncPong
    \/ SyncClose
    \/ SyncHeartbeat
    \/ SyncTimerStart

SpecSync == Init /\ [][NextSync]_vars

----------------------------------------------------------------------------
(* Requests that wait: a request reads the clock on entry and its          *)
(* transaction runs when it obtains the connection, in any order.          *)

\* time passes, a second at a time
RaceTick ==
    /\ clock + TicksPerSecond <= RaceMaxSeconds * TicksPerSecond
    /\ clock' = clock + TicksPerSecond
    /\ UNCHANGED <<goVars, nodeVars, expressVars, pushVars>>

Arrive ==
    \E u \in ActiveUsers, op \in Ops, m \in {ModeShortBreak}, si \in RaceSettingsInputs :
       \E b \in {state[u].version} :
          LET r == Request(u, op, b, m, si)
              k == CHOOSE n \in 1..MaxPending : [r EXCEPT !.dup = n] \notin pending
          IN  /\ Cardinality(pending) < MaxPending
              /\ b > 0
              /\ pending' = pending \cup {[r EXCEPT !.dup = k]}
              /\ UNCHANGED <<clock, state, sessions, resp, lastConflict, ran, nodeVars, expressVars, pushVars>>

RaceGetState == \E r \in pending : r.op = "getState" /\ Exec(r, RaceMaxVersion)
RaceStart == \E r \in pending : r.op = "start" /\ Exec(r, RaceMaxVersion)
RacePause == \E r \in pending : r.op = "pause" /\ Exec(r, RaceMaxVersion)
RaceReset == \E r \in pending : r.op = "reset" /\ Exec(r, RaceMaxVersion)
RaceSwitchMode == \E r \in pending : r.op = "switchMode" /\ Exec(r, RaceMaxVersion)
RaceUpdateSettings == \E r \in pending : r.op = "updateSettings" /\ Exec(r, RaceMaxVersion)

NextRace ==
    \/ RaceTick
    \/ Arrive
    \/ RaceGetState
    \/ RaceStart
    \/ RacePause
    \/ RaceReset
    \/ RaceSwitchMode
    \/ RaceUpdateSettings

SpecRace == Init /\ [][NextRace]_vars

----------------------------------------------------------------------------
(* Properties *)

\* a request to the Go service was served in this step
Served == resp' # resp

\* a request to the Node service was served in this step
NodeServed == nodeResp' # nodeResp

\* the stored timer is running and its end instant has passed at time now
Expired(st, now) ==
    /\ st.status = StatusRunning
    /\ st.startedAt # NoTime
    /\ now - st.startedAt >= st.remainingSeconds * TicksPerSecond

\* the version of the user's state as of time now: an expired timer counts as
\* reconciled
CurrentVersion(st, now) == IF Expired(st, now) THEN st.version + 1 ELSE st.version

\* the duration the settings give the mode
ConfiguredDuration(st) ==
    IF st.mode = ModeFocus THEN st.focusDurationSeconds
    ELSE IF st.mode = ModeShortBreak THEN st.shortBreakDurationSeconds
    ELSE st.longBreakDurationSeconds

\* the fields of a snapshot that are stored (not derived from the time of the
\* request)
Persisted(view) ==
    [ mode |-> view.mode, status |-> view.status, sessionId |-> view.sessionId,
      version |-> view.version, updatedAt |-> view.updatedAt,
      focusDurationSeconds |-> view.focusDurationSeconds,
      shortBreakDurationSeconds |-> view.shortBreakDurationSeconds,
      longBreakDurationSeconds |-> view.longBreakDurationSeconds ]

\* the whole seconds of each stretch, added up
RECURSIVE WholeSeconds(_)
WholeSeconds(stretches) ==
    IF stretches = <<>> THEN 0
    ELSE (Head(stretches) \div TicksPerSecond) + WholeSeconds(Tail(stretches))

RECURSIVE Ticks(_)
Ticks(stretches) ==
    IF stretches = <<>> THEN 0 ELSE Head(stretches) + Ticks(Tail(stretches))

(* C1 *)

\* C1, as claimed: of two mutations of one user that waited for the
\* connection together with the same baseVersion, exactly one succeeds and
\* the other receives a conflict whose snapshot is the winner's resulting
\* state.  (resp is the response to the second of the two, resp.rival the
\* outcome of the first.)
C1_ExactlyOneSucceeds ==
    resp.rival.kind # "none" =>
        \/ /\ resp.rival.kind = "ok" /\ resp.kind = "conflict"
           /\ Persisted(resp.view) = Persisted(resp.rival.view)
        \/ /\ resp.rival.kind = "conflict" /\ resp.kind = "ok"
           /\ Persisted(resp.rival.view) = Persisted(resp.view)

\* C1, amended: of two such mutations at most one commits; when the first
\* commits, the second receives a conflict whose snapshot is not older than
\* the winner's state, and is the winner's state when it carries the winner's
\* version; the stored state is never the result of both.
C1_AtMostOneCommits ==
    resp.rival.kind # "none" =>
        /\ ~(resp.rival.commit /\ resp.commit)
        /\ resp.rival.commit =>
              /\ resp.kind = "conflict"
              /\ resp.view.version >= resp.rival.view.version
              /\ state[resp.user].version >= resp.rival.view.version
              /\ resp.view.version = resp.rival.view.version
                    => Persisted(resp.view) = Persisted(resp.rival.view)

\* C1: a race was decided: the first committed, the second was refused with
\* the winner's state
C1_Witness ==
    /\ resp.rival.kind = "ok" /\ resp.rival.commit
    /\ resp.kind = "conflict"
    /\ Persisted(resp.view) = Persisted(resp.rival.view)
    /\ state[resp.user].version = resp.rival.view.version

(* C2 *)

\* C2, as claimed: every request served moves the stored version of a user
\* by 0 (nothing written) or by exactly 1, never more and never backwards.
C2_VersionStepsByOne ==
    [][\A u \in Users :
          state'[u].version = state[u].version \/ state'[u].version = state[u].version + 1]_vars

(* C3 *)

\* C3, as claimed: a valid mutation whose positive baseVersion differs from
\* the user's current version is refused with a conflict whose snapshot
\* carries the current version; a mutation that takes the version of the last
\* conflict snapshot, no commit in between, is accepted.
C3_ConflictThenAccepted ==
    [][(Served /\ resp'.op \in Mutations /\ resp'.kind # "bad_request") =>
          LET st == state[resp'.user] IN
          /\ resp'.baseVersion # CurrentVersion(st, clock) =>
                resp'.kind = "conflict" /\ resp'.view.version = CurrentVersion(st, clock)
          /\ resp'.followsConflict => resp'.kind = "ok"]_vars

\* C3, amended: the same, the follow-up being accepted provided the running
\* timer has not expired since the conflict was returned (an expiry moves the
\* current version without a commit).
C3_ConflictThenAcceptedUnlessExpired ==
    [][(Served /\ resp'.op \in Mutations /\ resp'.kind # "bad_request") =>
          LET st == state[resp'.user] IN
          /\ resp'.baseVersion # CurrentVersion(st, clock) =>
                /\ resp'.kind = "conflict"
                /\ resp'.view.version = CurrentVersion(st, clock)
                /\ state' = state /\ sessions' = sessions
          /\ (resp'.followsConflict /\ ~(Expired(st, clock) /\ resp'.baseVersion = st.version))
                => resp'.kind = "ok" /\ resp'.commit = (state' # state)]_vars

\* C3: a mutation was refused, and the follow-up with the snapshot's version
\* was accepted and committed
C3_Witness ==
    /\ resp.followsConflict
    /\ resp.kind = "ok" /\ resp.commit
    /\ state[resp.user].version = resp.baseVersion + 1

(* C4 *)

\* C4: in every stored state, status is running if and only if startedAt is
\* set.
C4_RunningIffStartedAt ==
    \A u \in Users : (state[u].status = StatusRunning) <=> (state[u].startedAt # NoTime)

\* C4: a timer that ran was paused: startedAt is cleared
C4_Witness ==
    /\ resp.op = "pause" /\ resp.commit
    /\ state[resp.user].status = StatusPaused
    /\ state[resp.user].startedAt = NoTime

(* C5 *)

\* C5: in every stored state, status is idle if and only if there is no
\* active session; a paused state keeps its session.
C5_IdleIffNoSession ==
    \A u \in Users :
        /\ (state[u].status = StatusIdle) <=> (state[u].sessionId = NoSession)
        /\ state[u].sessionId # NoSession =>
              /\ state[u].sessionId \in DOMAIN sessions
              /\ sessions[state[u].sessionId].userId = u

\* C5: the settings of a paused timer were updated, and it kept its session
C5_Witness ==
    /\ resp.op = "updateSettings" /\ resp.commit
    /\ state[resp.user].status = StatusPaused
    /\ state[resp.user].sessionId # NoSession

(* C6 *)

C8_StartFreshOrResume ==
    [][(Served /\ resp'.op = "start" /\ resp'.kind = "ok") =>
          LET u == resp'.user
              st == state[u]
              st1 == state'[u]
              n == Len(sessions')
          IN  /\ st.status = StatusIdle =>
                    /\ st1.status = StatusRunning /\ st1.startedAt = clock
                    /\ st1.mode = st.mode
                    /\ st1.remainingSeconds = ConfiguredDuration(st)
                    /\ n = Len(sessions) + 1
                    /\ SubSeq(sessions', 1, Len(sessions)) = sessions
                    /\ st1.sessionId = sessions'[n].id
                    /\ \A i \in 1..Len(sessions) : sessions[i].id # sessions'[n].id
                    /\ sessions'[n].userId = u
                    /\ sessions'[n].mode = st.mode
                    /\ sessions'[n].status = "running"
                    /\ sessions'[n].plannedDurationSeconds = ConfiguredDuration(st)
                    /\ sessions'[n].startedAt = clock
              /\ st.status = StatusPaused =>
                    /\ st1.status = StatusRunning /\ st1.startedAt = clock
                    /\ st1.remainingSeconds = st.remainingSeconds
                    /\ st.sessionId # NoSession
                    /\ st1.sessionId = st.sessionId
                    /\ sessions' = sessions]_vars

\* C8: a paused timer was resumed with less than the full duration left, and
\* the ledger holds the one session of the attempt
C8_Witness ==
    /\ resp.op = "start" /\ resp.commit
    /\ state[resp.user].status = StatusRunning
    /\ state[resp.user].remainingSeconds < ConfiguredDuration(state[resp.user])
    /\ Len(sessions) = 1
    /\ state[resp.user].sessionId = 1

(* C9 *)

\* C9: a reset, from any status, leaves the timer idle on the mode it had,
\* with the full configured duration of that mode, no startedAt and no
\* active session.
C9_ResetToIdleSameMode ==
    [][(Served /\ resp'.op = "reset" /\ resp'.kind = "ok") =>
          LET st == state[resp'.user]
              st1 == state'[resp'.user]
          IN  /\ st1.status = StatusIdle
              /\ st1.mode = st.mode
              /\ st1.remainingSeconds = ConfiguredDuration(st)
              /\ st1.startedAt = NoTime
              /\ st1.sessionId = NoSession
              /\ st1.focusDurationSeconds = st.focusDurationSeconds
              /\ st1.shortBreakDurationSeconds = st.shortBreakDurationSeconds
              /\ st1.longBreakDurationSeconds = st.longBreakDurationSeconds
              /\ resp'.view.status = StatusIdle
              /\ resp'.view.mode = st.mode
              /\ resp'.view.remainingSeconds = ConfiguredDuration(st)
              /\ resp'.view.startedAt = NoTime
              /\ resp'.view.sessionId = NoSession]_vars

\* C9: a short break that had run for a second was reset: idle, still a short
\* break, the five minutes restored
C9_Witness ==
    /\ resp.op = "reset" /\ resp.commit
    /\ state[resp.user].mode = ModeShortBreak
    /\ state[resp.user].remainingSeconds = DefaultShortBreakDurationSeconds
    /\ sessions # <<>>
    /\ sessions[1].status = "cancelled"
    /\ sessions[1].actualDurationSeconds = 1

(* C10 *)

\* C10, as claimed: a reset of an active timer before it expires closes the
\* active session as cancelled, its actual duration the whole seconds run so
\* far (planned less remaining), and the history (ListSessions) then lists
\* that session first.  (Rows with the same started_at may come in either
\* order.)
C10_CancelledSessionHeadsHistory ==
    [][(/\ Served /\ resp'.op = "reset" /\ resp'.kind = "ok"
        /\ state[resp'.user].sessionId # NoSession
        /\ ~Expired(state[resp'.user], clock)) =>
          LET u == resp'.user
              st == state[u]
              sid == st.sessionId
              sinceStart == IF st.status = StatusRunning
                            THEN (clock - st.startedAt) \div TicksPerSecond ELSE 0
              elapsed == WholeSeconds(ran[u]) + sinceStart
          IN  /\ sessions'[sid].status = "cancelled"
              /\ sessions'[sid].actualDurationSeconds = elapsed
              /\ sessions'[sid].actualDurationSeconds =
                    sessions[sid].plannedDurationSeconds - (st.remainingSeconds - sinceStart)
              /\ sessions'[sid].actualDurationSeconds < sessions[sid].plannedDurationSeconds
              /\ sessions'[sid].endedAt = clock
              /\ sid \in ListSessionsFirst(sessions', u)
              /\ \A i \in ListSessionsFirst(sessions', u) :
                    sessions'[i].startedAt = sessions'[sid].startedAt]_vars

(* C11 *)

\* the duration the settings give a mode
ConfiguredDurationOf(st, mode) ==
    IF mode = ModeFocus THEN st.focusDurationSeconds
    ELSE IF mode = ModeShortBreak THEN st.shortBreakDurationSeconds
    ELSE st.longBreakDurationSeconds

\* C11: an accepted switchMode leaves the timer idle on the requested mode
\* with that mode's configured duration, no startedAt and no active session,
\* and the session that was active (the timer not yet expired) is closed as
\* cancelled; a switchMode with a mode that is none of focus, short_break
\* and long_break is refused with a validation error and changes neither the
\* state, the version nor the ledger.
C11_SwitchModeOrReject ==
    [][(Served /\ resp'.op = "switchMode") =>
          LET u == resp'.user
              st == state[u]
              st1 == state'[u]
          IN  /\ resp'.mode \notin {"focus", "short_break", "long_break"} =>
                    resp'.kind = "bad_request" /\ state' = state /\ sessions' = sessions
              /\ resp'.kind = "ok" =>
                    /\ resp'.mode \in {"focus", "short_break", "long_break"}
                    /\ st1.status = StatusIdle
                    /\ st1.mode = resp'.mode
                    /\ st1.remainingSeconds = ConfiguredDurationOf(st, resp'.mode)
                    /\ st1.startedAt = NoTime
                    /\ st1.sessionId = NoSession
                    /\ st1.version > st.version
                    /\ resp'.view.status = StatusIdle /\ resp'.view.mode = resp'.mode
                    /\ resp'.view.remainingSeconds = st1.remainingSeconds
                    /\ (st.sessionId # NoSession /\ ~Expired(st, clock)) =>
                          /\ sessions'[st.sessionId].status = "cancelled"
                          /\ sessions'[st.sessionId].endedAt = clock
                    /\ Len(sessions') = Len(sessions)]_vars

\* C11: a running focus timer was switched to a short break: idle, five
\* minutes, the focus session cancelled
C11_Witness ==
    /\ resp.op = "switchMode" /\ resp.kind = "ok" /\ resp.mode = ModeShortBreak
    /\ state[resp.user].mode = ModeShortBreak
    /\ state[resp.user].status = StatusIdle
    /\ state[resp.user].remainingSeconds = DefaultShortBreakDurationSeconds
    /\ sessions # <<>>
    /\ sessions[1].mode = ModeFocus /\ sessions[1].status = "cancelled"

\* the lesser of two numbers
Min(a, b) == IF a < b THEN a ELSE b

\* C12: in the Go service, an accepted updateSettings on a paused timer leaves
\* remainingSeconds at the lesser of its previous value and the new configured
\* duration of the current mode, so it never increases it.
C12_PausedRemainingClampedDown ==
    [][(Served /\ resp'.op = "updateSettings" /\ resp'.kind = "ok"
          /\ state[resp'.user].status = StatusPaused) =>
          LET st == state[resp'.user]
              st1 == state'[resp'.user]
          IN  /\ st1.status = StatusPaused
              /\ st1.remainingSeconds =
                    Min(st.remainingSeconds, ConfiguredDurationOf(st1, st1.mode))
              /\ st1.remainingSeconds <= st.remainingSeconds]_vars

\* the stored Node timer is running and its end instant has passed
NodeExpired(userState, now) ==
    /\ userState.timer.status = "running"
    /\ userState.timer.endAt # NoTime
    /\ now >= userState.timer.endAt

RequestedDuration(input, mode) ==
    IF mode = ModeFocus THEN input[1] ELSE IF mode = ModeShortBreak THEN input[2] ELSE input[3]

\* C14: an accepted updateSettings on an idle timer sets the remaining time to
\* the newly configured duration of the current mode, the timer staying idle
\* on its mode: remainingSeconds in the Go service (stored and in the
\* snapshot), remainingMs and durationMs in the Node service.
C14_IdleRemainingIsNewDuration ==
    [][/\ (Served /\ resp'.op = "updateSettings" /\ resp'.kind = "ok"
             /\ state[resp'.user].status = StatusIdle) =>
             LET st == state[resp'.user]
                 st1 == state'[resp'.user]
             IN  /\ st1.status = StatusIdle
                 /\ st1.mode = st.mode
                 /\ st1.remainingSeconds = RequestedDuration(resp'.settings, st.mode)
                 /\ resp'.view.remainingSeconds = RequestedDuration(resp'.settings, st.mode)
                 /\ resp'.view.status = StatusIdle
       /\ (NodeServed /\ nodeResp'.op = "UPDATE_SETTINGS" /\ nodeResp'.reason = "action"
             /\ nodeStore[nodeResp'.user].timer.status = "idle") =>
             LET us == nodeStore[nodeResp'.user]
                 us1 == nodeStore'[nodeResp'.user]
                 newMinutes == IF us.timer.phase = "focus" THEN nodeResp'.payload.focusMinutes
                               ELSE IF us.timer.phase = "shortBreak"
                                    THEN nodeResp'.payload.shortBreakMinutes
                                    ELSE nodeResp'.payload.longBreakMinutes
                 oldMinutes == IF us.timer.phase = "focus" THEN us.settings.focusMinutes
                               ELSE IF us.timer.phase = "shortBreak"
                                    THEN us.settings.shortBreakMinutes
                                    ELSE us.settings.longBreakMinutes
                 minutes == IF newMinutes # Absent THEN newMinutes ELSE oldMinutes
             IN  /\ us1.timer.status = "idle"
                 /\ us1.timer.phase = us.timer.phase
                 /\ us1.timer.remainingMs = minutes * 60 * 1000
                 /\ us1.timer.durationMs = minutes * 60 * 1000
                 /\ nodeResp'.state.timer.remainingMs = minutes * 60 * 1000
      ]_vars

\* the Node service holds an idle focus timer of the 30 minutes just configured
C14_Witness ==
    /\ nodeResp.op = "UPDATE_SETTINGS" /\ nodeResp.reason = "action"
    /\ nodeResp.payload.focusMinutes = 30
    /\ nodeStore[nodeResp.user].timer.status = "idle"
    /\ nodeStore[nodeResp.user].timer.phase = "focus"
    /\ nodeStore[nodeResp.user].timer.remainingMs = 30 * 60 * 1000
    /\ nodeStore[nodeResp.user].timer.durationMs = 30 * 60 * 1000
    /\ nodeStore[nodeResp.user].version > 2

\* C15: a mutation rejected with a validation error leaves the stored state
\* as it was: in the Go service the user's state and the session rows; in the
\* Node service the user's state (settings, timer, statistics, version), a
\* user not yet stored counting as the default state.
C15_RejectedLeavesStateAlone ==
    [][/\ (Served /\ resp'.kind = "bad_request") =>
             state' = state /\ sessions' = sessions
       /\ (NodeServed /\ nodeResp'.reason = "error") =>
             nodeStore'[nodeResp'.user] = ensureUser(nodeStore[nodeResp'.user], NodeNow)
      ]_vars

\* C16: a session row whose status is not running is never written again: no
\* step changes any field of it (status, actualDurationSeconds, endedAt and
\* the rest), and no row disappears.
C16_FinishedSessionImmutable ==
    [][/\ Len(sessions') >= Len(sessions)
       /\ \A i \in DOMAIN sessions :
             sessions[i].status # "running" => sessions'[i] = sessions[i]]_vars

\* a first session is closed and a second one was closed after it
C16_Witness ==
    /\ Len(sessions) = 2
    /\ sessions[1].status = "completed"
    /\ sessions[2].status = "cancelled"
    /\ sessions[2].startedAt >= sessions[1].endedAt

\* C17: every session row has 0 <= actualDurationSeconds <=
\* plannedDurationSeconds, whatever the operations that led to it.
C17_ActualWithinPlanned ==
    \A i \in DOMAIN sessions :
       /\ 0 <= sessions[i].actualDurationSeconds
       /\ sessions[i].actualDurationSeconds <= sessions[i].plannedDurationSeconds

\* a session that ran for a second was cancelled after the durations were
\* raised above its planned duration
C17_Witness ==
    /\ sessions # <<>>
    /\ sessions[1].status = "cancelled"
    /\ sessions[1].plannedDurationSeconds = DefaultFocusDurationSeconds
    /\ sessions[1].actualDurationSeconds = 0
    /\ sessions[1].endedAt >= sessions[1].startedAt + TicksPerSecond
    /\ state[sessions[1].userId].focusDurationSeconds > DefaultFocusDurationSeconds

\* C18: a running session row becomes completed only in a step that finds its
\* user's timer running on that session with its time used up, and becomes
\* cancelled only by an accepted reset or switchMode; an accepted reset or
\* switchMode on a timer that holds a session (running and not expired, or
\* paused) closes that session as cancelled.
C18_CompletedOnlyByExpiry ==
    [][/\ \A i \in DOMAIN sessions :
             sessions[i].status = "running" =>
                /\ sessions'[i].status = "completed" =>
                      /\ state[sessions[i].userId].sessionId = i
                      /\ Expired(state[sessions[i].userId], clock)
                      /\ sessions'[i].actualDurationSeconds = sessions[i].plannedDurationSeconds
                /\ sessions'[i].status = "cancelled" =>
                      /\ Served /\ resp'.kind = "ok" /\ resp'.op \in {"reset", "switchMode"}
                      /\ resp'.user = sessions[i].userId
                      /\ state[sessions[i].userId].sessionId = i
                      /\ ~Expired(state[sessions[i].userId], clock)
       /\ (Served /\ resp'.kind = "ok" /\ resp'.op \in {"reset", "switchMode"}
             /\ state[resp'.user].sessionId # NoSession
             /\ ~Expired(state[resp'.user], clock)) =>
             sessions'[state[resp'.user].sessionId].status = "cancelled"
      ]_vars

\* switchMode interrupted a paused session that had run for a second
C18_Witness ==
    /\ resp.op = "switchMode" /\ resp.kind = "ok"
    /\ Len(sessions) = 1
    /\ sessions[1].status = "cancelled"
    /\ sessions[1].actualDurationSeconds = 1
    /\ sessions[1].endedAt > sessions[1].startedAt + TicksPerSecond
    /\ ran[resp.user] = <<>>

\* the break that follows the focus phase the stored Node timer is in
BreakToCome(userState) ==
    IF (userState.stats.completedFocusSessions + 1) % userState.settings.longBreakEvery = 0
    THEN "longBreak" ELSE "shortBreak"

\* the minutes the settings give a phase of the Node service
PhaseMinutes(settings, phase) ==
    IF phase = "focus" THEN settings.focusMinutes
    ELSE IF phase = "shortBreak" THEN settings.shortBreakMinutes
    ELSE settings.longBreakMinutes

\* a read of the Node service finds the stored timer running a focus phase
\* whose end instant has passed
ReadAfterFocusEnded ==
    /\ NodeServed /\ nodeResp'.op = "getState"
    /\ nodeStore[nodeResp'.user].timer.phase = "focus"
    /\ NodeExpired(nodeStore[nodeResp'.user], NodeNow)

\* C19 as stated: in the Node service the read that follows the end instant of
\* a running focus phase shows the timer running in the break phase that the
\* new count of completed focus sessions selects, and the count one higher.
C19_ReadShowsBreak ==
    [][ReadAfterFocusEnded =>
          LET us == nodeStore[nodeResp'.user]
              shown == nodeResp'.state
          IN  /\ shown.timer.status = "running"
              /\ shown.timer.phase = BreakToCome(us)
              /\ shown.stats.completedFocusSessions = us.stats.completedFocusSessions + 1
      ]_vars

\* C19, amended: the same, for a read that comes before the end instant of the
\* break that follows (the break starts at the end instant of the focus
\* phase); a later read shows the timer running in a later phase, with the
\* count higher by one or more.
C19_ReadShowsBreakUnlessEnded ==
    [][ReadAfterFocusEnded =>
          LET us == nodeStore[nodeResp'.user]
              shown == nodeResp'.state
              breakEndAt == us.timer.endAt
                               + PhaseMinutes(us.settings, BreakToCome(us)) * 60 * 1000
          IN  /\ shown.timer.status = "running"
              /\ shown.stats.completedFocusSessions >= us.stats.completedFocusSessions + 1
              /\ NodeNow < breakEndAt =>
                    /\ shown.timer.phase = BreakToCome(us)
                    /\ shown.stats.completedFocusSessions
                          = us.stats.completedFocusSessions + 1
                    /\ shown.timer.startedAt = us.timer.endAt
                    /\ shown.timer.endAt = breakEndAt
                    /\ shown.timer.remainingMs = breakEndAt - NodeNow
                    /\ nodeStore'[nodeResp'.user].version = us.version + 1
              /\ NodeNow >= breakEndAt => shown.timer.startedAt >= breakEndAt
      ]_vars

\* a read, after the focus phase ended, committed the short break in progress
C19_Witness ==
    /\ nodeResp.op = "getState"
    /\ nodeResp.state.updatedAt = nodeResp.serverNow
    /\ nodeResp.state.timer.phase = "shortBreak"
    /\ nodeResp.state.timer.status = "running"
    /\ nodeResp.state.timer.startedAt < nodeResp.serverNow
    /\ nodeResp.state.stats.completedFocusSessions = 1
    /\ nodeResp.state.version > 2

\* C20: when a focus phase completes the next phase is the long break exactly
\* when the count of completed focus sessions, the one just completed
\* included, is a multiple of the configured interval, and the short break
\* otherwise; when a break completes the next phase is focus and the count
\* stays. Node service: any step that advances a stored timer whose end
\* instant has passed (a read, an action, the maintenance tick). Express
\* service: POST /api/timer/complete.
C20_LongBreakEveryNth ==
    [][/\ \A u \in Users :
             LET us == nodeStore[u]
                 us1 == nodeStore'[u]
                 every == us.settings.longBreakEvery
                 count == us.stats.completedFocusSessions
                 count1 == us1.stats.completedFocusSessions
                 nextEndAt == us.timer.endAt
                                 + PhaseMinutes(us.settings,
                                                IF us.timer.phase = "focus"
                                                THEN BreakToCome(us) ELSE "focus") * 60 * 1000
             IN  (us1 # us /\ NodeExpired(us, NodeNow)) =>
                    /\ us1.timer.phase \in {"shortBreak", "longBreak"} =>
                          /\ count1 >= count + 1
                          /\ us1.timer.phase = "longBreak" <=> count1 % every = 0
                    /\ us1.timer.phase = "focus" =>
                          count1 >= count + (IF us.timer.phase = "focus" THEN 1 ELSE 0)
                    /\ (us.timer.phase = "focus" /\ NodeNow < nextEndAt) =>
                          /\ count1 = count + 1
                          /\ us1.timer.phase =
                                IF (count + 1) % every = 0 THEN "longBreak" ELSE "shortBreak"
                    /\ (us.timer.phase # "focus" /\ NodeNow < nextEndAt) =>
                          /\ count1 = count
                          /\ us1.timer.phase = "focus"
       /\ \A u \in Users :
             LET type == IF db[u].timer = NoTimerRow THEN "work" ELSE db[u].timer.timer_type
                 count == db[u].timer.completed_count
                 interval == db[u].settings.long_break_interval
                 row1 == db'[u].timer
             IN  Len(db'[u].sessions) = Len(db[u].sessions) + 1 =>
                    /\ type = "work" =>
                          /\ row1.completed_count = count + 1
                          /\ row1.timer_type =
                                IF (count + 1) % interval = 0 THEN "long_break"
                                ELSE "short_break"
                    /\ type # "work" =>
                          /\ row1.completed_count = count
                          /\ row1.timer_type = "work"
      ]_vars

\* the Node service runs the long break that follows the second focus
\* session, the interval being two
C20_Witness ==
    \E u \in ActiveUsers :
       /\ nodeStore[u].timer.phase = "longBreak"
       /\ nodeStore[u].timer.status = "running"
       /\ nodeStore[u].stats.completedFocusSessions = 2
       /\ nodeStore[u].settings.longBreakEvery = 2

\* C21: a GetState that follows a GetState of the same user at the same
\* instant, no other request of the service in between, returns the version
\* the first one returned and commits nothing (Go: state and sessions stay;
\* Node: the store stays).
C21_SecondReadSameVersion ==
    [][/\ (/\ resp.op = "getState" /\ resp.kind = "ok" /\ resp.view.serverTime = clock
           /\ resp'.op = "getState" /\ resp'.user = resp.user /\ clock' = clock) =>
             /\ resp'.kind = "ok"
             /\ resp'.view.version = resp.view.version
             /\ state' = state
             /\ sessions' = sessions
       /\ (/\ nodeResp.op = "getState" /\ nodeResp.serverNow = NodeNow
           /\ nodeResp'.op = "getState" /\ nodeResp'.user = nodeResp.user /\ clock' = clock) =>
             /\ nodeResp'.state.version = nodeResp.state.version
             /\ nodeStore' = nodeStore
      ]_vars

\* C22: the state of a user no mutation has touched is mode focus, status
\* idle, version 1, 25 minutes remaining, no startedAt and no active session
\* (and no session row); the first read shows just that. Go: the row written
\* by CreateInitialState; Node: the state the first request creates.
C22_NewUserDefaults ==
    [][/\ \A u \in Users :
             state[u].version = 1 =>
                /\ state[u].mode = "focus"
                /\ state[u].status = "idle"
                /\ state[u].remainingSeconds = 25 * 60
                /\ state[u].startedAt = NoTime
                /\ state[u].sessionId = NoSession
                /\ \A i \in DOMAIN sessions : sessions[i].userId # u
       /\ (Served /\ resp'.op = "getState" /\ state[resp'.user].version = 1) =>
             /\ resp'.kind = "ok"
             /\ resp'.view.version = 1
             /\ resp'.view.mode = "focus"
             /\ resp'.view.status = "idle"
             /\ resp'.view.remainingSeconds = 25 * 60
             /\ resp'.view.startedAt = NoTime
             /\ resp'.view.sessionId = NoSession
       /\ (NodeServed /\ nodeResp'.op = "getState" /\ nodeStore[nodeResp'.user] = NoUser) =>
             /\ nodeResp'.state.version = 1
             /\ nodeResp'.state.timer.phase = "focus"
             /\ nodeResp'.state.timer.status = "idle"
             /\ nodeResp'.state.timer.remainingMs = 25 * 60 * 1000
             /\ nodeResp'.state.timer.durationMs = 25 * 60 * 1000
             /\ nodeResp'.state.timer.startedAt = NoTime
             /\ nodeResp'.state.timer.endAt = NoTime
             /\ nodeResp'.state.stats.completedFocusSessions = 0
             /\ nodeStore'[nodeResp'.user] = nodeResp'.state
      ]_vars

\* a user created at time 0 is read for the first time later on
C22_Witness ==
    /\ resp.op = "getState" /\ resp.kind = "ok"
    /\ resp.view.version = 1
    /\ resp.view.serverTime > 0
    /\ resp.view.remainingSeconds = DefaultFocusDurationSeconds
    /\ state[resp.user].version = 1

\* the commits a step makes to a user's state: the bumps of its version
\* (the creation of the state at version 1 is not one)
Commits(u) ==
    nodeStore'[u].version - (IF nodeStore[u] = NoUser THEN 1 ELSE nodeStore[u].version)

\* the streams registered for a user whose socket is alive
LiveStreams(u) ==
    { r \in Streams : /\ u \in DOMAIN sse.clients
                      /\ InBucket(r, sse.clients[u])
                      /\ ~sse.res[r].destroyed }

\* C23: Node service: every commit of a user's state (a version bump, by an
\* action or by an automatic phase advance) sends one 'state' event to every
\* stream registered for that user, the last one carrying the new snapshot
\* and the reason of the commit, and sends nothing to the streams registered
\* for other users.
C23_CommitPushedToOwnStreams ==
    [][\A u \in Users : \A r \in LiveStreams(u) :
          /\ sse'.res[r].events = sse.res[r].events + Commits(u)
          /\ Commits(u) = 0 => sse'.res[r].last = sse.res[r].last
          /\ Commits(u) > 0 =>
                /\ sse'.res[r].last.event = "state"
                /\ sse'.res[r].last.payload.userId = u
                /\ sse'.res[r].last.payload.serverNow = NodeNow
                /\ sse'.res[r].last.payload.state.version = nodeStore'[u].version
                /\ sse'.res[r].last.payload.state = buildStateSnapshot(nodeStore'[u], NodeNow)
                /\ sse'.res[r].last.payload.reason =
                      IF nodeResp' # nodeResp /\ nodeResp'.reason = "action"
                      THEN CASE nodeResp'.op = "START" -> "action:START"
                             [] nodeResp'.op = "PAUSE" -> "action:PAUSE"
                             [] OTHER -> "action:?"
                      ELSE "timer:auto" ]_vars

C23_Witness ==
    \E r \in Streams, q \in Streams :
       /\ "u1" \in DOMAIN sse.clients /\ InBucket(r, sse.clients["u1"])
       /\ "u2" \in DOMAIN sse.clients /\ InBucket(q, sse.clients["u2"])
       /\ sse.res[r].events = 2
       /\ sse.res[r].last.payload.reason = "action:START"
       /\ sse.res[r].last.payload.state.version = 2
       /\ sse.res[r].last.payload.state.timer.status = "running"
       /\ nodeStore["u1"].version = 2
       /\ sse.res[q].events = 1
       /\ sse.res[q].last.payload.reason = "stream:connected"

\* the streams registered for a user whose socket is destroyed: a write to
\* one of them fails
DeadStreams(u) ==
    { r \in Streams : /\ u \in DOMAIN sse.clients
                      /\ InBucket(r, sse.clients[u])
                      /\ sse.res[r].destroyed }

\* C24: Node service: when an action commits a change while a stream
\* registered for the user cannot be written to, the user's other streams
\* still receive the event, the change stays committed and the response to
\* the action is the new state, not an error.
C24_FailedDeliveryIsolated ==
    [][\A u \in Users :
          (/\ DeadStreams(u) # {}
           /\ nodeResp' # nodeResp
           /\ nodeResp'.user = u
           /\ nodeResp'.op \in NodeActions
           /\ applyAction(nodeStore[u], nodeResp'.op, nodeResp'.payload, NodeNow).reason
                 = "action") =>
             /\ nodeResp'.reason = "action"
             /\ nodeStore'[u].version > nodeStore[u].version
             /\ nodeResp'.state = buildStateSnapshot(nodeStore'[u], NodeNow)
             /\ \A r \in LiveStreams(u) :
                   /\ sse'.res[r].events > sse.res[r].events
                   /\ sse'.res[r].last.payload.state = nodeResp'.state
             /\ \A r \in DeadStreams(u) : sse'.res[r] = sse.res[r] ]_vars

C24_Witness ==
    /\ "u1" \in DOMAIN sse.clients
    /\ sse.clients["u1"] = <<1, 2>>
    /\ sse.res[1].destroyed
    /\ ~sse.res[2].destroyed
    /\ nodeResp.reason = "action"
    /\ nodeResp.op = "START"
    /\ nodeResp.state.version = nodeStore["u1"].version
    /\ sse.res[2].last.payload.reason = "action:START"
    /\ sse.res[2].last.payload.state = nodeResp.state
    /\ sse.res[1].last.payload.reason = "stream:connected"
    /\ sse.res[2].events = sse.res[1].events + 1

\* C25: once the close of a push connection has been handled (the 'close' of
\* a stream's request in the Node service, 'close' or 'error' of a WebSocket
\* in the SyncManager), the connection is in no user's bucket, it is sent
\* nothing more, and no bucket is left empty.
C25_ClosedConnectionUnregistered ==
    [][/\ \A r \in Streams :
             /\ sse'.res[r].status = "closed" =>
                   \A u \in DOMAIN sse'.clients : ~InBucket(r, sse'.clients[u])
             /\ sse.res[r].status = "closed" => sse'.res[r] = sse.res[r]
       /\ \A u \in DOMAIN sse'.clients : sse'.clients[u] # <<>>
       /\ \A w \in Sockets :
             /\ sync'.ws[w].status = "closed" =>
                   \A u \in DOMAIN sync'.clients : w \notin sync'.clients[u]
             /\ sync.ws[w].status = "closed" => sync'.ws[w] = sync.ws[w]
       /\ \A u \in DOMAIN sync'.clients : sync'.clients[u] # {} ]_vars

\* C26: SyncManager heartbeat: at a heartbeat tick a connection that has not
\* answered the ping of the tick before is terminated and is left in no
\* bucket of the registry; a connection that has answered (or is new) is
\* pinged and stays as it is; and a connection is terminated by a tick only.
C26_HeartbeatPrunesSilent ==
    [][\A w \in Sockets :
          /\ (sync'.beats = sync.beats + 1 /\ sync.ws[w].status = "open") =>
                IF sync.ws[w].isAlive
                THEN /\ sync'.ws[w].status = "open"
                     /\ ~sync'.ws[w].isAlive
                     /\ \A u \in DOMAIN sync.clients :
                           w \in sync.clients[u] =>
                              u \in DOMAIN sync'.clients /\ w \in sync'.clients[u]
                ELSE /\ sync'.ws[w].status = "terminated"
                     /\ \A u \in DOMAIN sync'.clients : w \notin sync'.clients[u]
          /\ (sync.ws[w].status = "open" /\ sync'.ws[w].status = "terminated") =>
                sync'.beats = sync.beats + 1 /\ ~sync.ws[w].isAlive ]_vars

\* the rows of the ledger that belong to a user
SessionsOf(sess, u) == SelectSeq(sess, LAMBDA row : row.userId = u)

\* C27: Go service: a request changes the TimerState and the sessions of the
\* user it is made for and of nobody else.
C27_OtherUsersUntouched ==
    [][\A v \in Users :
          (state'[v] # state[v] \/ SessionsOf(sessions', v) # SessionsOf(sessions, v)) =>
             /\ resp' # resp
             /\ resp'.user = v ]_vars

C27_Witness ==
    /\ Len(sessions) = 2
    /\ sessions[1].userId = "u1" /\ sessions[1].status = "running"
    /\ sessions[2].userId = "u2" /\ sessions[2].status = "cancelled"
    /\ state["u1"].status = StatusRunning /\ state["u1"].sessionId = 1
    /\ state["u2"].status = StatusIdle /\ state["u2"].version = 3
    /\ resp.user = "u2" /\ resp.op = "reset" /\ resp.kind = "ok"

\* C28: a mutation during which a persistence step fails (Go: a write of the
\* transaction; Node: saveStore in commitUserState) is answered with an
\* internal error and leaves the user's state and ledger as they were before
\* the request.
C28_FailedMutationLeavesNothing ==
    [][/\ (resp' # resp /\ resp'.kind = "internal") =>
             state' = state /\ sessions' = sessions
       /\ (nodeResp' # nodeResp /\ nodeResp'.reason = "internal") =>
             nodeStore'[nodeResp'.user] = ensureUser(nodeStore[nodeResp'.user], NodeNow) ]_vars

\* the instant a running timer ends
EndInstant(st) == st.startedAt + st.remainingSeconds * TicksPerSecond

\* C29: Go service: a read that finds a running timer past its end instant
\* leaves the next phase (a break after focus, focus after a break) running,
\* started at the end instant, with that phase's configured duration
\* remaining, and with a new running session for it.
C29_ReconciledIntoNextPhase ==
    [][\A u \in Users :
          (/\ Served /\ resp'.user = u /\ resp'.op = "getState" /\ resp'.kind = "ok"
           /\ Expired(state[u], clock)) =>
             /\ IF state[u].mode = ModeFocus
                THEN state'[u].mode \in {ModeShortBreak, ModeLongBreak}
                ELSE state'[u].mode = ModeFocus
             /\ state'[u].status = StatusRunning
             /\ state'[u].startedAt = EndInstant(state[u])
             /\ state'[u].remainingSeconds = ConfiguredDurationOf(state'[u], state'[u].mode)
             /\ state'[u].sessionId \notin {NoSession, state[u].sessionId}
             /\ state'[u].sessionId \in DOMAIN sessions'
             /\ sessions'[state'[u].sessionId].status = "running"
             /\ sessions'[state'[u].sessionId].plannedDurationSeconds =
                   state'[u].remainingSeconds ]_vars

\* the completed rows of a user in the ledger
CompletedOf(sess, u) ==
    { i \in DOMAIN sess : sess[i].userId = u /\ sess[i].status = "completed" }

\* C30: Go service: a request that reconciles an expired running timer
\* closes its session as completed with actualDurationSeconds equal to
\* plannedDurationSeconds and endedAt equal to the timer's end instant, and
\* the user's ledger gains exactly that one completed row.
C30_ReconciledSessionEndsAtEndInstant ==
    [][\A u \in Users :
          (/\ Served /\ resp'.user = u /\ state'[u] # state[u]
           /\ Expired(state[u], clock)
           /\ state[u].sessionId # NoSession) =>
             /\ sessions'[state[u].sessionId].status = "completed"
             /\ sessions'[state[u].sessionId].actualDurationSeconds =
                   sessions[state[u].sessionId].plannedDurationSeconds
             /\ CompletedOf(sessions', u) = CompletedOf(sessions, u) \cup {state[u].sessionId}
             /\ sessions'[state[u].sessionId].endedAt = EndInstant(state[u]) ]_vars

\* a step that is one reconciliation of user u in the Node service and
\* nothing else: a read, or the maintenance tick
ReconciliationOnly(u) ==
    \/ NodeServed /\ nodeResp'.user = u /\ nodeResp'.op = "getState"
    \/ nodeResp' = nodeResp /\ nodeStore'[u] # nodeStore[u]

\* C31: Node service: one reconciliation of a running timer whose end
\* instant has passed (one read, or one maintenance tick) raises the version
\* by exactly 1 and sets updatedAt to the time of the reconciliation, however
\* many phases have elapsed.
C31_OneCommitPerReconciliation ==
    [][\A u \in Users :
          (/\ nodeStore[u] # NoUser
           /\ NodeExpired(nodeStore[u], NodeNow)
           /\ ReconciliationOnly(u)) =>
             /\ nodeStore'[u].version = nodeStore[u].version + 1
             /\ nodeStore'[u].updatedAt = NodeNow
             /\ nodeStore'[u].timer.startedAt >= nodeStore[u].timer.endAt ]_vars

\* a read has carried the timer over more than one phase with one commit: two
\* focus sessions are complete at a version that leaves room for one
\* reconciliation after the start
C31_Witness ==
    /\ nodeResp.op = "getState"
    /\ nodeResp.state.version = 4
    /\ nodeResp.state.updatedAt = nodeResp.serverNow
    /\ nodeResp.state.stats.completedFocusSessions >= 2
    /\ nodeResp.state.settings.focusMinutes = 1
    /\ nodeStore[nodeResp.user].version = 4

\* C32: Node service: the state a request returns after its reconciliation
\* at time now is true as of now: a timer it shows running ends strictly
\* after now, and so has time remaining.
C32_RunningEndsAfterNow ==
    (nodeResp.op \in NodeActions \cup {"getState"} /\ nodeResp.reason \notin {"error", "internal"}) =>
       (nodeResp.state.timer.status = "running" =>
           /\ nodeResp.state.timer.endAt > nodeResp.serverNow
           /\ nodeResp.state.timer.remainingMs > 0
           /\ nodeStore[nodeResp.user].timer.endAt > nodeResp.serverNow)

\* C33: Go service: a mutation that arrives when the stored timer is running
\* and past its end instant is checked against the version the
\* reconciliation produces (the stored version plus one): it conflicts exactly
\* when its baseVersion is another one, and the conflict carries the timer
\* after the expiry (not running, no session, that version), never the
\* running timer at the stored version.
C33_ConflictAfterReconciliation ==
    [][\A u \in Users :
          (/\ Served /\ resp'.user = u /\ resp'.op \in Mutations
           /\ resp'.kind \in {"ok", "conflict"}
           /\ Expired(state[u], clock)) =>
             /\ resp'.kind = "conflict" <=> resp'.baseVersion # state[u].version + 1
             /\ resp'.kind = "conflict" =>
                   /\ resp'.view.version = state[u].version + 1
                   /\ resp'.view.status = StatusIdle
                   /\ resp'.view.startedAt = NoTime
                   /\ resp'.view.sessionId = NoSession
                   /\ resp'.view.remainingSeconds = ConfiguredDurationOf(state[u], state[u].mode) ]_vars

\* a mutation carrying the version of the running timer it last saw arrived
\* after that timer had expired and was answered with the conflict
C33_Witness ==
    /\ resp.kind = "conflict"
    /\ resp.op \in Mutations
    /\ state[resp.user].status = StatusRunning
    /\ Expired(state[resp.user], clock)
    /\ resp.baseVersion = state[resp.user].version
    /\ resp.view.version = state[resp.user].version + 1
    /\ resp.view.status = StatusIdle
    /\ resp.view.serverTime = clock

\* the rows of a user in the ledger that have status running
RunningOf(sess, u) ==
    { i \in DOMAIN sess : sess[i].userId = u /\ sess[i].status = "running" }

\* C34: Go service: a user has at most one session row with status running,
\* and it is the row the user's TimerState references by sessionId; a step
\* that clears sessionId leaves the row it referenced out of status running.
C34_OneRunningSessionReferenced ==
    [][\A u \in Users :
          /\ Cardinality(RunningOf(sessions', u)) <= 1
          /\ RunningOf(sessions', u) \subseteq {state'[u].sessionId}
          /\ (state[u].sessionId # NoSession /\ state'[u].sessionId = NoSession) =>
                sessions'[state[u].sessionId].status \in {"completed", "cancelled"} ]_vars

\* a user's second session is running and referenced while the first one,
\* cleared by a reset, is cancelled
C34_Witness ==
    \E u \in Users :
       /\ Len(sessions) = 2
       /\ sessions[1].userId = u /\ sessions[1].status = "cancelled"
       /\ sessions[2].userId = u /\ sessions[2].status = "running"
       /\ state[u].sessionId = 2
       /\ RunningOf(sessions, u) = {2}

\* C35: Go service: a mutation answered with a conflict leaves the user's
\* TimerState (version and updatedAt included) and every session row as they
\* were, also when the request had reconciled an expired timer before the
\* version check.
C35_ConflictCommitsNothing ==
    [][(Served /\ resp'.kind = "conflict") =>
          /\ state' = state
          /\ sessions' = sessions
          /\ ~resp'.commit ]_vars

\* a conflict whose request had reconciled an expired timer: the stored
\* timer is still running at its version and its session row is still open
C35_Witness ==
    /\ resp.kind = "conflict"
    /\ resp.view.status = StatusIdle
    /\ resp.view.version = state[resp.user].version + 1
    /\ state[resp.user].status = StatusRunning
    /\ state[resp.user].sessionId # NoSession
    /\ sessions[state[resp.user].sessionId].status = "running"
    /\ sessions[state[resp.user].sessionId].endedAt = NoTime
    /\ state[resp.user].updatedAt < clock

\* C36: Go service: the snapshot of every successful response (a read, a
\* mutation, a start or pause that finds nothing to do) has the version, the
\* status and the sessionId of the user's stored TimerState as the request
\* leaves it.
C36_ResponseShowsStoredState ==
    [][(Served /\ resp'.kind = "ok") =>
          /\ resp'.view.version = state'[resp'.user].version
          /\ resp'.view.status = state'[resp'.user].status
          /\ resp'.view.sessionId = state'[resp'.user].sessionId ]_vars

\* the users whose client set holds connection w
BucketsOf(manager, w) == { u \in DOMAIN manager.clients : w \in manager.clients[u] }

\* C37: SyncManager: whatever auth messages a connection has sent, it is in
\* the client set of at most one user, the user of its last successful auth;
\* a broadcast of a timer route reaches only connections whose last
\* successful auth was for the route's user; a closed connection is in no
\* client set.
C37_OneUserPerConnection ==
    [][\A w \in Sockets :
          /\ Cardinality(BucketsOf(sync', w)) <= 1
          /\ BucketsOf(sync', w) \subseteq {sync'.ws[w].userId}
          /\ sync'.ws[w].status = "closed" => BucketsOf(sync', w) = {}
          /\ (db' # db /\ sync'.ws[w].received > sync.ws[w].received) =>
                \E u \in ActiveUsers : db'[u] # db[u] /\ sync.ws[w].userId = u ]_vars

----------------------------------------------------------------------------
(* The Node service left to its maintenance timer: clients start timers    *)
(* and open streams, and send nothing while a timer is past its end; the   *)
(* interval set in the constructor keeps firing handleMaintenanceTick.     *)

AutoMaxClock == 1
AutoMaxVersion == 3

\* no stored timer is past its end
Quiet == \A v \in Users : ~NodeExpired(nodeStore[v], NodeNow)

AutoTick == Tick(AutoMaxClock)
AutoUnattended == Unattended(AutoMaxClock)

AutoOpenStream ==
    \E u \in ActiveUsers, r \in Streams :
       /\ NodeDeployed
       /\ Quiet
       /\ sse.res[r].status = "none"
       /\ \A q \in 1 .. r - 1 : sse.res[q].status # "none"
       /\ syncUserTimer(nodeStore[u], NodeNow).version <= AutoMaxVersion
       /\ nodeStore' = [nodeStore EXCEPT ![u] = syncUserTimer(nodeStore[u], NodeNow)]
       /\ sse' = openStateStream(sse, nodeStore[u], u, r, NodeNow)
       /\ UNCHANGED <<clock, goVars, nodeResp, expressVars, sync>>

AutoStart ==
    \E u \in ActiveUsers : NodeDeployed /\ Quiet /\ NodeServe(u, "START", NoPayload, AutoMaxVersion)

\* the callback of setInterval(..., tickIntervalMs)
AutoMaintenanceTick ==
    /\ NodeDeployed
    /\ \A u \in Users : handleMaintenanceTick(nodeStore, NodeNow)[u].version <= AutoMaxVersion
    /\ nodeStore' = handleMaintenanceTick(nodeStore, NodeNow)
    /\ nodeStore' # nodeStore
    /\ sse' = maintenanceBroadcasts(sse, nodeStore, NodeNow)
    /\ UNCHANGED <<clock, goVars, nodeResp, expressVars, sync>>

NextAuto ==
    \/ AutoTick
    \/ AutoUnattended
    \/ AutoOpenStream
    \/ PushDestroy
    \/ PushClose
    \/ AutoStart
    \/ AutoMaintenanceTick

\* the interval keeps firing for as long as the process runs
SpecAuto == Init /\ [][NextAuto]_vars /\ WF_vars(AutoMaintenanceTick)

\* the versions leave room for the commit of a tick
TickRoom == \A v \in Users : nodeStore[v].version < AutoMaxVersion

\* C38: Node service, with the maintenance timer firing and no client
\* request: a running timer whose end instant has passed is eventually
\* advanced and committed (in its next phase, no longer past its end), and every
\* stream of the user that stays connected eventually holds, as its last
\* event, the snapshot of the advanced state with reason timer:auto.
C38_TickAdvancesExpiredTimer ==
    /\ \A u \in ActiveUsers :
          (NodeExpired(nodeStore[u], NodeNow) /\ TickRoom)
             ~> (/\ ~NodeExpired(nodeStore[u], NodeNow)
                 /\ nodeStore[u].timer.phase # "focus"
                 /\ nodeStore[u].timer.startedAt > 0
                 /\ nodeStore[u].updatedAt = NodeNow)
    /\ \A u \in ActiveUsers : \A r \in Streams :
          (NodeExpired(nodeStore[u], NodeNow) /\ r \in LiveStreams(u) /\ TickRoom)
             ~> (\/ r \notin LiveStreams(u)
                 \/ /\ ~NodeExpired(nodeStore[u], NodeNow)
                    /\ sse.res[r].last.event = "state"
                    /\ sse.res[r].last.payload.userId = u
                    /\ sse.res[r].last.payload.reason = "timer:auto"
                    /\ sse.res[r].last.payload.serverNow = NodeNow
                    /\ sse.res[r].last.payload.state = buildStateSnapshot(nodeStore[u], NodeNow))

C38_Witness ==
    \E r \in LiveStreams("u1") :
       /\ nodeResp.op = "START"
       /\ nodeStore["u1"].version = 3
       /\ nodeStore["u1"].timer.phase = "shortBreak"
       /\ nodeStore["u1"].timer.status = "running"
       /\ nodeStore["u1"].stats.completedFocusSessions = 1
       /\ sse.res[r].events = 3
       /\ sse.res[r].last.payload.reason = "timer:auto"
       /\ sse.res[r].last.payload.state.version = 3

\* the delays, in milliseconds from now, after which a reconciliation comes
ReconcileDelays ==
    { 0, 30 * 1000, 60 * 1000, 2 * 60 * 1000, 3 * 60 * 1000, 25 * 60 * 1000 }

\* the call of advanceTimerIfNeeded at `now` was not stopped by safetyCounter
WithinCap(userState, now) == ~NodeExpired(advanceLoop(userState, now, 0), now)

\* C39: Node service: for instants t1 <= t2 and a stored user state,
\* syncUserTimer at t1 and then at t2 leaves the same timer (phase, status,
\* startedAt, endAt, also durationMs and remainingMs), completedFocusSessions
\* and settings as syncUserTimer once at t2, when no call is stopped by the
\* cap of 100 transitions; only version and updatedAt may differ.
C39_ReconciliationComposes ==
    \A u \in Users : \A d1 \in ReconcileDelays : \A d2 \in ReconcileDelays :
       LET t1 == NodeNow + d1
           t2 == NodeNow + d2
           first == syncUserTimer(nodeStore[u], t1)
           twice == syncUserTimer(first, t2)
           once == syncUserTimer(nodeStore[u], t2)
       IN  (/\ nodeStore[u] # NoUser
            /\ d1 <= d2
            /\ WithinCap(nodeStore[u], t1)
            /\ WithinCap(first, t2)
            /\ WithinCap(nodeStore[u], t2)) =>
              /\ twice.timer.phase = once.timer.phase
              /\ twice.timer.status = once.timer.status
              /\ twice.timer.startedAt = once.timer.startedAt
              /\ twice.timer.endAt = once.timer.endAt
              /\ twice.stats.completedFocusSessions = once.stats.completedFocusSessions
              /\ [twice EXCEPT !.version = 0, !.updatedAt = 0]
                    = [once EXCEPT !.version = 0, !.updatedAt = 0]
              /\ twice.version >= once.version

\* a stored running timer for which phases end before the first
\* reconciliation and again between the first and the second, one of them a
\* focus phase each time
C39_Witness ==
    \E d1 \in ReconcileDelays : \E d2 \in ReconcileDelays :
       LET first == syncUserTimer(nodeStore["u1"], NodeNow + d1)
           twice == syncUserTimer(first, NodeNow + d2)
       IN  /\ nodeStore["u1"].timer.status = "running"
           /\ nodeResp.op = "getState"
           /\ d1 < d2
           /\ first.stats.completedFocusSessions
                 > nodeStore["u1"].stats.completedFocusSessions
           /\ twice.stats.completedFocusSessions > first.stats.completedFocusSessions
           /\ twice.version = nodeStore["u1"].version + 2
           /\ syncUserTimer(nodeStore["u1"], NodeNow + d2).version
                 = nodeStore["u1"].version + 1

\* the bounds of a snapshot's remaining time
RemainingWithinDuration(snapshot) ==
    /\ 0 <= snapshot.timer.remainingMs
    /\ snapshot.timer.remainingMs <= snapshot.timer.durationMs

\* C40: Node service: every snapshot returned by a request or written to a
\* stream has 0 <= timer.remainingMs <= timer.durationMs, whatever actions
\* and automatic advances came before.
C40_RemainingWithinDuration ==
    /\ nodeResp.state # NoUser => RemainingWithinDuration(nodeResp.state)
    /\ \A r \in Streams :
          sse.res[r].events > 0 => RemainingWithinDuration(sse.res[r].last.payload.state)

====
